---- MODULE Spec2Model ----
(***************************************************************************)
(* Reviewer assignment service (internal/app Service) over its three       *)
(* relations teams, users and pull_requests.                               *)
(*                                                                         *)
(* The SQL statements of the service are pure operators on the relations.  *)
(* Spec runs the operations one at a time, each operation being the        *)
(* composition of its statements; SpecReads does the same behind the HTTP  *)
(* handlers, with the two read-only queries as operations and fewer        *)
(* inputs.  SpecConc runs the same statements as separate steps of         *)
(* concurrent sessions under PostgreSQL READ COMMITTED with row locks,     *)
(* from a stored team; SpecPRs runs the reassign and merge steps from a    *)
(* store that also holds pull requests, SpecStats the two statements of    *)
(* GetAssignmentStats next to deactivations and reassignments, SpecTeams   *)
(* CreateTeam next to the two statements of GetTeam.                       *)
(***************************************************************************)
EXTENDS Integers, Sequences, FiniteSets, TLC

\* ---------------------------------------------------------------- bounds
MaxUser == 4
MaxPR == 2
MaxOps == 4

\* ------------------------------------------------------ program constants
MaxReviewers == 2
NULL == 0

Users == 1..MaxUser
PRs == 1..MaxPR
Teams == {"T1", "T2"}
PRNames == {"n"}
Procs == {1, 2}

\* ------------------------------------------------------------- helpers
Min(S) == CHOOSE x \in S : \A y \in S : x <= y

RECURSIVE SortAsc(_)
SortAsc(S) == IF S = {} THEN <<>>
              ELSE LET m == Min(S) IN <<m>> \o SortAsc(S \ {m})

Range(s) == {s[i] : i \in 1..Len(s)}

\* the elements of s that are in Keep, order kept
RECURSIVE Filter(_, _)
Filter(s, Keep) == IF s = <<>> THEN <<>>
                   ELSE IF Head(s) \in Keep THEN <<Head(s)>> \o Filter(Tail(s), Keep)
                   ELSE Filter(Tail(s), Keep)

Put(f, k, v) == [x \in (DOMAIN f) \cup {k} |-> IF x = k THEN v ELSE f[x]]

\* -------------------------------------------------------------- inputs
Member(id, name, active) == [id |-> id, name |-> name, active |-> active]

MemberLists ==
  { <<>>,
    <<Member(1, "a", TRUE), Member(2, "a", TRUE), Member(3, "a", TRUE), Member(4, "a", TRUE)>>,
    <<Member(1, "a", TRUE), Member(2, "a", TRUE)>>,
    <<Member(3, "a", TRUE), Member(4, "a", FALSE)>>,
    <<Member(3, "b", FALSE), Member(2, "a", TRUE)>> }

\* ------------------------------------------------------ SQL statements
\* variant: the lookup always finds a row
TeamExists_Always(tm, t) == TRUE

\* variant: the lookup and the primary key of teams find nothing
TeamExists_Never(tm, t) == FALSE

\* SELECT team_name FROM teams WHERE team_name = $1
TeamExists(tm, t) == t \in tm

\* variant: the existence check finds nothing
PRExists_Never(ps, id) == FALSE

\* SELECT pull_request_id FROM pull_requests WHERE pull_request_id = $1
PRExists(ps, id) == id \in DOMAIN ps

\* variant: ON CONFLICT (user_id) DO NOTHING
UpsertUser_DoNothing(us, m, t) ==
  IF m.id \in DOMAIN us THEN us
  ELSE Put(us, m.id, [name |-> m.name, team |-> t, active |-> m.active])

\* INSERT INTO users ... ON CONFLICT (user_id) DO UPDATE SET username,
\* team_name, is_active
UpsertUser(us, m, t) == Put(us, m.id, [name |-> m.name, team |-> t, active |-> m.active])

\* the member loop of CreateTeam
RECURSIVE UpsertMembers(_, _, _)
UpsertMembers(us, ms, t) ==
  IF ms = <<>> THEN us ELSE UpsertMembers(UpsertUser(us, Head(ms), t), Tail(ms), t)

\* SELECT user_id, username, is_active FROM users WHERE team_name = $1
\* ORDER BY user_id
TeamMemberIDs(us, t) == SortAsc({u \in DOMAIN us : us[u].team = t})

SelectMembers(us, t) ==
  LET ids == TeamMemberIDs(us, t)
  IN [i \in 1..Len(ids) |-> Member(ids[i], us[ids[i]].name, us[ids[i]].active)]


\* variant: the is_active filter is missing
SelectReviewers_NoActiveFilter(us, t, author) ==
  SortAsc({u \in DOMAIN us : us[u].team = t /\ u # author})

\* variant: the team is not filtered
SelectReviewers_AnyTeam(us, t, author) ==
  SortAsc({u \in DOMAIN us : u # author /\ us[u].active})

\* selectReviewersQuery of CreatePullRequest
SelectReviewers(us, t, author) ==
  SortAsc({u \in DOMAIN us : us[u].team = t /\ u # author /\ us[u].active})

\* the rows.Next() loop of CreatePullRequest: append, break at two
FirstReviewers(rows) ==
  IF Len(rows) <= MaxReviewers THEN rows ELSE SubSeq(rows, 1, MaxReviewers)

\* insertPRQuery: status 'OPEN', created_at default, merged_at NULL
NewPR(name, author, assigned, t) ==
  [name |-> name, author |-> author, status |-> "OPEN", reviewers |-> assigned,
   createdAt |-> t, mergedAt |-> NULL]


\* variant: the UPDATE also sets created_at
MergeRow_Touch(row, t) ==
  [row EXCEPT !.status = "MERGED", !.createdAt = t,
              !.mergedAt = IF row.mergedAt # NULL THEN row.mergedAt ELSE t]

\* variant: merged_at = NOW() without COALESCE
MergeRow_Overwrite(row, t) ==
  [row EXCEPT !.status = "MERGED", !.mergedAt = t]

\* UPDATE ... SET status = 'MERGED', merged_at = COALESCE(merged_at, NOW())
MergeRow(row, t) ==
  [row EXCEPT !.status = "MERGED",
              !.mergedAt = IF row.mergedAt # NULL THEN row.mergedAt ELSE t]

\* variant: every user counts as assigned
isReviewerAssigned_Always(assigned, oldUserID) == TRUE

\* variant: only the first element is compared
isReviewerAssigned_HeadOnly(assigned, oldUserID) ==
  assigned # <<>> /\ Head(assigned) = oldUserID

isReviewerAssigned(assigned, oldUserID) ==
  \E i \in 1..Len(assigned) : assigned[i] = oldUserID


\* variant: the old reviewer is dropped and the new one appended
replaceReviewer_Append(assigned, oldUserID, newUserID) ==
  Filter(assigned, Users \ {oldUserID}) \o <<newUserID>>

\* variant: the new reviewer is appended and the old one kept
replaceReviewer_Keep(assigned, oldUserID, newUserID) == assigned \o <<newUserID>>

replaceReviewer(assigned, oldUserID, newUserID) ==
  [i \in 1..Len(assigned) |-> IF assigned[i] = oldUserID THEN newUserID ELSE assigned[i]]


\* variant: the author is not excluded
Candidates_WithAuthor(us, t, oldUserID, authorID, assigned) ==
  {u \in DOMAIN us : /\ us[u].team = t
                     /\ us[u].active
                     /\ u # oldUserID
                     /\ ~isReviewerAssigned(assigned, u)}

\* variant: the current reviewers are not excluded
Candidates_WithAssigned(us, t, oldUserID, authorID, assigned) ==
  {u \in DOMAIN us : /\ us[u].team = t
                     /\ us[u].active
                     /\ u # oldUserID
                     /\ u # authorID}

\* selectCandidateQuery of ReassignReviewer, before ORDER BY random() LIMIT 1
Candidates(us, t, oldUserID, authorID, assigned) ==
  {u \in DOMAIN us : /\ us[u].team = t
                     /\ us[u].active
                     /\ u # oldUserID
                     /\ u # authorID
                     /\ ~isReviewerAssigned(assigned, u)}


\* variant: ORDER BY user_id LIMIT 1
PickOne_First(cands) == {Min(cands)}

\* ORDER BY random() LIMIT 1 on a non-empty result: the rows that can be the
\* one returned
PickOne(cands) == cands


\* variant: only the first element is compared
ArrayRemove_HeadOnly(assigned, u) ==
  IF assigned # <<>> /\ Head(assigned) = u THEN Tail(assigned) ELSE assigned

\* array_remove(assigned_reviewers, $1)
ArrayRemove(assigned, u) == Filter(assigned, Users \ {u})


\* variant: the WHERE clause is missing
SetActive_AllRows(us, userID, isActive) ==
  [u \in DOMAIN us |-> [us[u] EXCEPT !.active = isActive]]

\* UPDATE users SET is_active = $2 WHERE user_id = $1
SetActive(us, userID, isActive) == [us EXCEPT ![userID].active = isActive]


\* variant: the status condition is missing
MatchesUser_AnyStatus(row, u) == isReviewerAssigned(row.reviewers, u)

\* updatePRsQuery of SetUserIsActive: WHERE clause and SET clause
MatchesUser(row, u) == isReviewerAssigned(row.reviewers, u) /\ row.status # "MERGED"

\* the statement applied to the rows `rows` it matched when it started
CleanupUserIn(ps, u, rows) ==
  [p \in DOMAIN ps |-> IF p \in rows /\ MatchesUser(ps[p], u)
                       THEN [ps[p] EXCEPT !.reviewers = ArrayRemove(ps[p].reviewers, u)]
                       ELSE ps[p]]

CleanupUser(ps, u) == CleanupUserIn(ps, u, DOMAIN ps)


\* variant: the status condition is missing
MatchesAny_AnyStatus(row, ids) == Range(row.reviewers) \cap ids # {}

\* updatePRsQuery of DeactivateTeamMembers: WHERE clause and SET clause
MatchesAny(row, ids) == row.status # "MERGED" /\ Range(row.reviewers) \cap ids # {}

CleanupUsersIn(ps, ids, rows) ==
  [p \in DOMAIN ps |-> IF p \in rows /\ MatchesAny(ps[p], ids)
                       THEN [ps[p] EXCEPT !.reviewers = Filter(ps[p].reviewers, Users \ ids)]
                       ELSE ps[p]]

CleanupUsers(ps, ids) == CleanupUsersIn(ps, ids, DOMAIN ps)

\* UPDATE users SET is_active = FALSE WHERE team_name = $1
DeactivateUsersIn(us, t, rows) ==
  [u \in DOMAIN us |-> IF u \in rows /\ us[u].team = t
                       THEN [us[u] EXCEPT !.active = FALSE] ELSE us[u]]

DeactivateUsers(us, t) == DeactivateUsersIn(us, t, DOMAIN us)

\* variant: MERGED pull requests are left out
GetUserReviews_OpenOnly(ps, userID) ==
  LET ids == SortAsc({id \in DOMAIN ps : /\ isReviewerAssigned(ps[id].reviewers, userID)
                                         /\ ps[id].status # "MERGED"})
  IN [i \in 1..Len(ids) |-> [id |-> ids[i], name |-> ps[ids[i]].name,
                             author |-> ps[ids[i]].author, status |-> ps[ids[i]].status]]

\* GetUserReviews: SELECT ... WHERE $1 = ANY(assigned_reviewers)
\* ORDER BY pull_request_id
GetUserReviews(ps, userID) ==
  LET ids == SortAsc({id \in DOMAIN ps : isReviewerAssigned(ps[id].reviewers, userID)})
  IN [i \in 1..Len(ids) |-> [id |-> ids[i], name |-> ps[ids[i]].name,
                             author |-> ps[ids[i]].author, status |-> ps[ids[i]].status]]

\* variant: the inner SELECT skips MERGED pull requests
Unnest_OpenOnly(ps) ==
  UNION {{<<id, i>> : i \in IF ps[id].status = "MERGED" THEN {}
                            ELSE 1..Len(ps[id].reviewers)} : id \in DOMAIN ps}

\* byUserQuery of GetAssignmentStats.  Unnest is the inner SELECT: one row
\* <<pull request, position>> per element of every reviewer array; the outer
\* SELECT groups the rows by the element and counts them.
Unnest(ps) ==
  UNION {{<<id, i>> : i \in 1..Len(ps[id].reviewers)} : id \in DOMAIN ps}

StatsByUser(ps) ==
  LET rows == Unnest(ps)
      reviewerID(r) == ps[r[1]].reviewers[r[2]]
      ids == SortAsc({reviewerID(r) : r \in rows})
  IN [k \in 1..Len(ids) |->
        [user_id |-> ids[k],
         assignments |-> Cardinality({r \in rows : reviewerID(r) = ids[k]})]]

\* byPRQuery of GetAssignmentStats: cardinality(assigned_reviewers) of every
\* row, ORDER BY pull_request_id
StatsByPR(ps) ==
  LET ids == SortAsc(DOMAIN ps)
  IN [k \in 1..Len(ids) |->
        [pull_request_id |-> ids[k], assignments |-> Len(ps[ids[k]].reviewers)]]

\* ------------------------------------------------------------- state
VARIABLES teams,   \* relation teams: set of team names
          users,   \* relation users: user_id -> [name, team, active]
          prs,     \* relation pull_requests: pull_request_id -> row
          nops,    \* number of operations invoked so far; also the storage clock
          call,    \* per session: the number of its latest invocation
          ret,     \* per session: the last call and what it returned
          pc,      \* per session: position inside the running operation
          loc,     \* per session: local variables of the running operation
          lockPR,  \* row locks on pull_requests: pull_request_id -> session
          lockUser, \* row locks on users: user_id -> session
          base     \* the store and the operation count at the latest invocation
                   \* that found every session idle

db == <<teams, users, prs>>
conc == <<pc, loc, lockPR, lockUser>>
clock == <<nops, call, base>>
vars == <<teams, users, prs, nops, call, ret, pc, loc, lockPR, lockUser, base>>

NoRet == [op |-> "none", args |-> <<>>, code |-> "none", out |-> <<>>]
NoLoc == [op |-> "none"]
Returned(op, args, code, out) == [op |-> op, args |-> args, code |-> code, out |-> out]

Init ==
  /\ teams = {}
  /\ users = <<>>
  /\ prs = <<>>
  /\ nops = 0
  /\ call = [p \in Procs |-> 0]
  /\ ret = [p \in Procs |-> NoRet]
  /\ pc = [p \in Procs |-> "idle"]
  /\ loc = [p \in Procs |-> NoLoc]
  /\ lockPR = <<>>
  /\ lockUser = <<>>
  /\ base = [teams |-> teams, users |-> users, prs |-> prs, n |-> nops]

\* An operation is invoked.  NOW() / CURRENT_TIMESTAMP read the number of
\* operations invoked so far: later operations read later times.  base keeps
\* the store found by the latest invocation made while no operation was
\* running: in the one-at-a-time runs, the store before the last operation.
Invoke(p) ==
  /\ nops < MaxOps
  /\ nops' = nops + 1
  /\ call' = [call EXCEPT ![p] = nops + 1]
  /\ base' = IF \A q \in Procs : pc[q] = "idle"
             THEN [teams |-> teams, users |-> users, prs |-> prs, n |-> nops]
             ELSE base

\* ------------------------- operations as functions of the store
\* The same operations, applied to a store d = [teams, users, prs] read at
\* time now: the set of possible results [teams, users, prs, code, out].
Outcome(tm, us, ps, code, out) ==
  [teams |-> tm, users |-> us, prs |-> ps, code |-> code, out |-> out]

Fails(d, code) == {Outcome(d.teams, d.users, d.prs, code, <<>>)}

CreateTeamAt(d, t, ms) ==
  IF TeamExists(d.teams, t) THEN Fails(d, "TEAM_EXISTS")
  ELSE {Outcome(d.teams \cup {t}, UpsertMembers(d.users, ms, t), d.prs, "OK", ms)}

CreatePullRequestAt(d, id, name, authorID, now) ==
  IF PRExists(d.prs, id) THEN Fails(d, "PR_EXISTS")
  ELSE IF authorID \notin DOMAIN d.users THEN Fails(d, "NOT_FOUND")
  ELSE LET teamName == d.users[authorID].team
           assigned == FirstReviewers(SelectReviewers(d.users, teamName, authorID))
           pr       == NewPR(name, authorID, assigned, now)
       IN {Outcome(d.teams, d.users, Put(d.prs, id, pr), "OK", pr)}

MergePullRequestAt(d, prID, now) ==
  IF prID \notin DOMAIN d.prs THEN Fails(d, "NOT_FOUND")
  ELSE LET row == MergeRow(d.prs[prID], now)
       IN {Outcome(d.teams, d.users, [d.prs EXCEPT ![prID] = row], "OK", row)}

ReassignReviewerAt(d, prID, oldUserID) ==
  IF prID \notin DOMAIN d.prs THEN Fails(d, "NOT_FOUND")
  ELSE LET authorID == d.prs[prID].author
           assigned == d.prs[prID].reviewers
       IN IF d.prs[prID].status = "MERGED" THEN Fails(d, "PR_MERGED")
          ELSE IF ~isReviewerAssigned(assigned, oldUserID) THEN Fails(d, "NOT_ASSIGNED")
          ELSE IF oldUserID \notin DOMAIN d.users THEN Fails(d, "NOT_FOUND")
          ELSE LET cands == Candidates(d.users, d.users[oldUserID].team, oldUserID,
                                       authorID, assigned)
               IN IF cands = {} THEN Fails(d, "NO_CANDIDATE")
                  ELSE { LET row == [d.prs[prID] EXCEPT !.reviewers =
                                       replaceReviewer(assigned, oldUserID, newUserID)]
                         IN Outcome(d.teams, d.users, [d.prs EXCEPT ![prID] = row],
                                    "OK", <<row, newUserID>>) : newUserID \in PickOne(cands) }

SetUserIsActiveAt(d, userID, isActive) ==
  IF userID \notin DOMAIN d.users THEN Fails(d, "NOT_FOUND")
  ELSE LET u == [d.users[userID] EXCEPT !.active = isActive]
       IN {Outcome(d.teams, SetActive(d.users, userID, isActive),
                   IF isActive THEN d.prs ELSE CleanupUser(d.prs, userID), "OK", u)}

DeactivateTeamMembersAt(d, teamName) ==
  IF ~TeamExists(d.teams, teamName) THEN Fails(d, "NOT_FOUND")
  ELSE LET rows    == SelectMembers(d.users, teamName)
           userIDs == {rows[i].id : i \in 1..Len(rows)}
           members == [i \in 1..Len(rows) |-> [rows[i] EXCEPT !.active = FALSE]]
       IN {Outcome(d.teams, DeactivateUsers(d.users, teamName),
                   IF userIDs # {} THEN CleanupUsers(d.prs, userIDs) ELSE d.prs,
                   "OK", members)}

GetTeamAt(d, name) ==
  IF ~TeamExists(d.teams, name) THEN Fails(d, "NOT_FOUND")
  ELSE {Outcome(d.teams, d.users, d.prs, "OK",
                [name |-> name, members |-> SelectMembers(d.users, name)])}

GetUserReviewsAt(d, userID) ==
  {Outcome(d.teams, d.users, d.prs, "OK", GetUserReviews(d.prs, userID))}

GetAssignmentStatsAt(d) ==
  {Outcome(d.teams, d.users, d.prs, "OK",
           [by_user |-> StatsByUser(d.prs), by_pr |-> StatsByPR(d.prs)])}

OutcomesAt(d, op, args, now) ==
  CASE op = "CreateTeam" -> CreateTeamAt(d, args[1], args[2])
    [] op = "GetTeam" -> GetTeamAt(d, args[1])
    [] op = "GetUserReviews" -> GetUserReviewsAt(d, args[1])
    [] op = "GetAssignmentStats" -> GetAssignmentStatsAt(d)
    [] op = "CreatePullRequest" -> CreatePullRequestAt(d, args[1], args[2], args[3], now)
    [] op = "MergePullRequest" -> MergePullRequestAt(d, args[1], now)
    [] op = "ReassignReviewer" -> ReassignReviewerAt(d, args[1], args[2])
    [] op = "SetUserIsActive" -> SetUserIsActiveAt(d, args[1], args[2])
    [] op = "DeactivateTeamMembers" -> DeactivateTeamMembersAt(d, args[1])

\* --------------------------------------- operations run one at a time
SeqProc == Min(Procs)
Reply(op, args, code, out) == ret' = [ret EXCEPT ![SeqProc] = Returned(op, args, code, out)]

CreateTeam(t, ms) ==
  /\ Invoke(SeqProc)
  /\ IF TeamExists(teams, t)
     THEN /\ Reply("CreateTeam", <<t, ms>>, "TEAM_EXISTS", <<>>)
          /\ UNCHANGED <<teams, users>>
     ELSE /\ teams' = teams \cup {t}
          /\ users' = UpsertMembers(users, ms, t)
          /\ Reply("CreateTeam", <<t, ms>>, "OK", ms)
  /\ UNCHANGED <<prs, conc>>

GetTeam(name) ==
  /\ Invoke(SeqProc)
  /\ IF ~TeamExists(teams, name)
     THEN Reply("GetTeam", <<name>>, "NOT_FOUND", <<>>)
     ELSE Reply("GetTeam", <<name>>, "OK",
                [name |-> name, members |-> SelectMembers(users, name)])
  /\ UNCHANGED <<db, conc>>

\* variant: the author lookup finds active users only
CreatePullRequest_ActiveAuthor(id, name, authorID) ==
  /\ Invoke(SeqProc)
  /\ IF PRExists(prs, id)
     THEN /\ Reply("CreatePullRequest", <<id, name, authorID>>, "PR_EXISTS", <<>>)
          /\ UNCHANGED prs
     ELSE IF authorID \notin DOMAIN users \/ ~users[authorID].active
     THEN /\ Reply("CreatePullRequest", <<id, name, authorID>>, "NOT_FOUND", <<>>)
          /\ UNCHANGED prs
     ELSE LET teamName == users[authorID].team
              assigned == FirstReviewers(SelectReviewers(users, teamName, authorID))
              pr       == NewPR(name, authorID, assigned, nops')
          IN /\ prs' = Put(prs, id, pr)
             /\ Reply("CreatePullRequest", <<id, name, authorID>>, "OK", pr)
  /\ UNCHANGED <<teams, users, conc>>

\* variant: the row is inserted before the author is looked up
CreatePullRequest_InsertFirst(id, name, authorID) ==
  /\ Invoke(SeqProc)
  /\ IF PRExists(prs, id)
     THEN /\ Reply("CreatePullRequest", <<id, name, authorID>>, "PR_EXISTS", <<>>)
          /\ UNCHANGED prs
     ELSE IF authorID \notin DOMAIN users
     THEN /\ Reply("CreatePullRequest", <<id, name, authorID>>, "NOT_FOUND", <<>>)
          /\ prs' = Put(prs, id, NewPR(name, authorID, <<>>, nops'))
     ELSE LET teamName == users[authorID].team
              assigned == FirstReviewers(SelectReviewers(users, teamName, authorID))
              pr       == NewPR(name, authorID, assigned, nops')
          IN /\ prs' = Put(prs, id, pr)
             /\ Reply("CreatePullRequest", <<id, name, authorID>>, "OK", pr)
  /\ UNCHANGED <<teams, users, conc>>

CreatePullRequest(id, name, authorID) ==
  /\ Invoke(SeqProc)
  /\ IF PRExists(prs, id)
     THEN /\ Reply("CreatePullRequest", <<id, name, authorID>>, "PR_EXISTS", <<>>)
          /\ UNCHANGED prs
     ELSE IF authorID \notin DOMAIN users
     THEN /\ Reply("CreatePullRequest", <<id, name, authorID>>, "NOT_FOUND", <<>>)
          /\ UNCHANGED prs
     ELSE LET teamName == users[authorID].team
              assigned == FirstReviewers(SelectReviewers(users, teamName, authorID))
              pr       == NewPR(name, authorID, assigned, nops')
          IN /\ prs' = Put(prs, id, pr)
             /\ Reply("CreatePullRequest", <<id, name, authorID>>, "OK", pr)
  /\ UNCHANGED <<teams, users, conc>>

MergePullRequest(prID) ==
  /\ Invoke(SeqProc)
  /\ IF prID \notin DOMAIN prs
     THEN /\ Reply("MergePullRequest", <<prID>>, "NOT_FOUND", <<>>)
          /\ UNCHANGED prs
     ELSE /\ prs' = [prs EXCEPT ![prID] = MergeRow(prs[prID], nops')]
          /\ Reply("MergePullRequest", <<prID>>, "OK", MergeRow(prs[prID], nops'))
  /\ UNCHANGED <<teams, users, conc>>

\* variant: the reviewer list is checked before the status
ReassignReviewer_AssignedFirst(prID, oldUserID) ==
  /\ Invoke(SeqProc)
  /\ \E o \in ReassignReviewerAt([teams |-> teams, users |-> users, prs |-> prs],
                                 prID, oldUserID) :
       LET code == IF /\ o.code = "PR_MERGED"
                      /\ ~isReviewerAssigned(prs[prID].reviewers, oldUserID)
                   THEN "NOT_ASSIGNED" ELSE o.code
       IN /\ prs' = o.prs
          /\ Reply("ReassignReviewer", <<prID, oldUserID>>, code, o.out)
  /\ UNCHANGED <<teams, users, conc>>

ReassignReviewer(prID, oldUserID) ==
  /\ Invoke(SeqProc)
  /\ \/ /\ prID \notin DOMAIN prs
        /\ Reply("ReassignReviewer", <<prID, oldUserID>>, "NOT_FOUND", <<>>)
        /\ UNCHANGED prs
     \/ /\ prID \in DOMAIN prs
        /\ LET authorID == prs[prID].author
               status   == prs[prID].status
               assigned == prs[prID].reviewers
           IN IF status = "MERGED"
              THEN /\ Reply("ReassignReviewer", <<prID, oldUserID>>, "PR_MERGED", <<>>)
                   /\ UNCHANGED prs
              ELSE IF ~isReviewerAssigned(assigned, oldUserID)
              THEN /\ Reply("ReassignReviewer", <<prID, oldUserID>>, "NOT_ASSIGNED", <<>>)
                   /\ UNCHANGED prs
              ELSE IF oldUserID \notin DOMAIN users
              THEN /\ Reply("ReassignReviewer", <<prID, oldUserID>>, "NOT_FOUND", <<>>)
                   /\ UNCHANGED prs
              ELSE LET teamName == users[oldUserID].team
                       cands == Candidates(users, teamName, oldUserID, authorID, assigned)
                   IN IF cands = {}
                      THEN /\ Reply("ReassignReviewer", <<prID, oldUserID>>, "NO_CANDIDATE", <<>>)
                           /\ UNCHANGED prs
                      ELSE \E newUserID \in PickOne(cands) :
                             LET row == [prs[prID] EXCEPT !.reviewers =
                                           replaceReviewer(assigned, oldUserID, newUserID)]
                             IN /\ prs' = [prs EXCEPT ![prID] = row]
                                /\ Reply("ReassignReviewer", <<prID, oldUserID>>, "OK",
                                         <<row, newUserID>>)
  /\ UNCHANGED <<teams, users, conc>>

SetUserIsActive(userID, isActive) ==
  /\ Invoke(SeqProc)
  /\ IF userID \notin DOMAIN users
     THEN /\ Reply("SetUserIsActive", <<userID, isActive>>, "NOT_FOUND", <<>>)
          /\ UNCHANGED <<users, prs>>
     ELSE /\ users' = SetActive(users, userID, isActive)
          /\ prs' = IF isActive THEN prs ELSE CleanupUser(prs, userID)
          /\ Reply("SetUserIsActive", <<userID, isActive>>, "OK",
                   [users[userID] EXCEPT !.active = isActive])
  /\ UNCHANGED <<teams, conc>>

DeactivateTeamMembers(teamName) ==
  /\ Invoke(SeqProc)
  /\ IF ~TeamExists(teams, teamName)
     THEN /\ Reply("DeactivateTeamMembers", <<teamName>>, "NOT_FOUND", <<>>)
          /\ UNCHANGED <<users, prs>>
     ELSE LET rows    == SelectMembers(users, teamName)
              userIDs == {rows[i].id : i \in 1..Len(rows)}
              members == [i \in 1..Len(rows) |-> [rows[i] EXCEPT !.active = FALSE]]
          IN /\ users' = DeactivateUsers(users, teamName)
             /\ prs' = IF userIDs # {} THEN CleanupUsers(prs, userIDs) ELSE prs
             /\ Reply("DeactivateTeamMembers", <<teamName>>, "OK", members)
  /\ UNCHANGED <<teams, conc>>

Next ==
  \/ \E t \in Teams, ms \in MemberLists : CreateTeam(t, ms)
  \/ \E t \in Teams : GetTeam(t)
  \/ \E id \in PRs, name \in PRNames, a \in Users : CreatePullRequest(id, name, a)
  \/ \E id \in PRs : MergePullRequest(id)
  \/ \E id \in PRs, u \in Users : ReassignReviewer(id, u)
  \/ \E u \in Users, a \in BOOLEAN : SetUserIsActive(u, a)
  \/ \E t \in Teams : DeactivateTeamMembers(t)

Spec == Init /\ [][Next]_vars

\* ---------------------------------------------- concurrent sessions
\* Each step below is one statement sent to the store by one session.
\* The store runs READ COMMITTED: a statement reads what is committed when it
\* runs; an UPDATE / SELECT FOR UPDATE waits for the row locks of the rows it
\* matched and then re-checks its WHERE clause on the latest row version; the
\* writes of a transaction become visible at its COMMIT.  BeginTx(ctx, nil)
\* asks for the default isolation level.  A statement that only reads never
\* waits.  The UPDATE of users of DeactivateTeamMembers takes its row locks
\* row by row; the cleanup UPDATEs of pull_requests take theirs in one step.
\* Two transactions that wait for each other's row locks are a deadlock: the
\* store aborts one of them.

\* variant: no statement waits for a row lock (FOR UPDATE missing)
LockedByOther_Never(lk, k, p) == FALSE

\* variant: one lock for the whole table instead of one per row
LockedByOther_Table(lk, k, p) == \E x \in DOMAIN lk : lk[x] # p

LockedByOther(lk, k, p) == k \in DOMAIN lk /\ lk[k] # p
Acquire(lk, ks, p) == [k \in (DOMAIN lk) \cup ks |-> IF k \in ks THEN p ELSE lk[k]]
Release(lk, p) == [k \in {x \in DOMAIN lk : lk[x] # p} |-> lk[k]]

Done(p, op, args, code, out) ==
  /\ ret' = [ret EXCEPT ![p] = Returned(op, args, code, out)]
  /\ pc' = [pc EXCEPT ![p] = "idle"]
  /\ loc' = [loc EXCEPT ![p] = NoLoc]

Goto(p, label, l) ==
  /\ pc' = [pc EXCEPT ![p] = label]
  /\ loc' = [loc EXCEPT ![p] = l]
  /\ UNCHANGED ret

\* Sessions are interchangeable: a new operation takes the lowest idle session.
Idle(p) == pc[p] = "idle" /\ \A q \in Procs : q < p => pc[q] # "idle"

\* --- CreatePullRequest: existence check and author lookup, reviewer
\* --- selection, insert; three autocommitted statements, no transaction
CP_Start(p, id, name, authorID) ==
  /\ Idle(p) /\ Invoke(p)
  /\ IF PRExists(prs, id)
     THEN Done(p, "CreatePullRequest", <<id, name, authorID>>, "PR_EXISTS", <<>>)
     ELSE IF authorID \notin DOMAIN users
     THEN Done(p, "CreatePullRequest", <<id, name, authorID>>, "NOT_FOUND", <<>>)
     ELSE Goto(p, "cp_reviewers", [op |-> "CreatePullRequest", id |-> id, name |-> name,
                                   authorID |-> authorID, teamName |-> users[authorID].team])
  /\ UNCHANGED <<db, lockPR, lockUser>>

CP_Reviewers(p) ==
  /\ pc[p] = "cp_reviewers"
  /\ LET l == loc[p]
         assigned == FirstReviewers(SelectReviewers(users, l.teamName, l.authorID))
     IN Goto(p, "cp_insert", [op |-> l.op, id |-> l.id, name |-> l.name,
                              authorID |-> l.authorID, assigned |-> assigned])
  /\ UNCHANGED <<db, clock, lockPR, lockUser>>

\* The insert fails on the primary key when the id was inserted meanwhile;
\* the failure is returned wrapped ("insert pull request: ..."), not as a
\* domain error.
CP_Insert(p) ==
  /\ pc[p] = "cp_insert"
  /\ LET l == loc[p]
         pr == NewPR(l.name, l.authorID, l.assigned, nops)
     IN IF l.id \in DOMAIN prs
        THEN /\ Done(p, l.op, <<l.id, l.name, l.authorID>>, "ERROR", <<>>)
             /\ UNCHANGED prs
        ELSE /\ prs' = Put(prs, l.id, pr)
             /\ Done(p, l.op, <<l.id, l.name, l.authorID>>, "OK", pr)
  /\ UNCHANGED <<teams, users, clock, lockPR, lockUser>>

\* --- MergePullRequest: one autocommitted UPDATE
MP_Apply(p, prID, t) ==
  /\ prs' = [prs EXCEPT ![prID] = MergeRow(prs[prID], t)]
  /\ Done(p, "MergePullRequest", <<prID>>, "OK", MergeRow(prs[prID], t))

MP_Start(p, prID) ==
  /\ Idle(p) /\ Invoke(p)
  /\ IF prID \notin DOMAIN prs
     THEN /\ Done(p, "MergePullRequest", <<prID>>, "NOT_FOUND", <<>>)
          /\ UNCHANGED prs
     ELSE IF LockedByOther(lockPR, prID, p)
     THEN /\ Goto(p, "mp_wait", [op |-> "MergePullRequest", prID |-> prID, t |-> nops'])
          /\ UNCHANGED prs
     ELSE MP_Apply(p, prID, nops')
  /\ UNCHANGED <<teams, users, lockPR, lockUser>>

MP_Wait(p) ==
  /\ pc[p] = "mp_wait"
  /\ ~LockedByOther(lockPR, loc[p].prID, p)
  /\ MP_Apply(p, loc[p].prID, loc[p].t)
  /\ UNCHANGED <<teams, users, clock, lockPR, lockUser>>

\* --- ReassignReviewer: one transaction; SELECT ... FOR UPDATE holds the
\* --- lock of the pull request row until commit or rollback
RR_Locked(p, prID, oldUserID) ==
  LET row  == prs[prID]
      args == <<prID, oldUserID>>
  IN IF row.status = "MERGED"
     THEN /\ Done(p, "ReassignReviewer", args, "PR_MERGED", <<>>)
          /\ lockPR' = Release(lockPR, p)
     ELSE IF ~isReviewerAssigned(row.reviewers, oldUserID)
     THEN /\ Done(p, "ReassignReviewer", args, "NOT_ASSIGNED", <<>>)
          /\ lockPR' = Release(lockPR, p)
     ELSE /\ Goto(p, "rr_team", [op |-> "ReassignReviewer", prID |-> prID,
                                 oldUserID |-> oldUserID, authorID |-> row.author,
                                 assigned |-> row.reviewers])
          /\ lockPR' = Acquire(lockPR, {prID}, p)

RR_Start(p, prID, oldUserID) ==
  /\ Idle(p) /\ Invoke(p)
  /\ IF prID \notin DOMAIN prs
     THEN /\ Done(p, "ReassignReviewer", <<prID, oldUserID>>, "NOT_FOUND", <<>>)
          /\ UNCHANGED lockPR
     ELSE IF LockedByOther(lockPR, prID, p)
     THEN /\ Goto(p, "rr_lock", [op |-> "ReassignReviewer", prID |-> prID,
                                 oldUserID |-> oldUserID])
          /\ UNCHANGED lockPR
     ELSE RR_Locked(p, prID, oldUserID)
  /\ UNCHANGED <<db, lockUser>>

RR_Lock(p) ==
  /\ pc[p] = "rr_lock"
  /\ ~LockedByOther(lockPR, loc[p].prID, p)
  /\ RR_Locked(p, loc[p].prID, loc[p].oldUserID)
  /\ UNCHANGED <<db, clock, lockUser>>

RR_Team(p) ==
  /\ pc[p] = "rr_team"
  /\ LET l == loc[p]
     IN IF l.oldUserID \notin DOMAIN users
        THEN /\ Done(p, l.op, <<l.prID, l.oldUserID>>, "NOT_FOUND", <<>>)
             /\ lockPR' = Release(lockPR, p)
        ELSE /\ Goto(p, "rr_cand", [op |-> l.op, prID |-> l.prID, oldUserID |-> l.oldUserID,
                                    authorID |-> l.authorID, assigned |-> l.assigned,
                                    teamName |-> users[l.oldUserID].team])
             /\ UNCHANGED lockPR
  /\ UNCHANGED <<db, clock, lockUser>>

RR_Cand(p) ==
  /\ pc[p] = "rr_cand"
  /\ LET l == loc[p]
         cands == Candidates(users, l.teamName, l.oldUserID, l.authorID, l.assigned)
     IN IF cands = {}
        THEN /\ Done(p, l.op, <<l.prID, l.oldUserID>>, "NO_CANDIDATE", <<>>)
             /\ lockPR' = Release(lockPR, p)
        ELSE /\ \E newUserID \in PickOne(cands) :
                  Goto(p, "rr_update", [op |-> l.op, prID |-> l.prID,
                                        oldUserID |-> l.oldUserID, assigned |-> l.assigned,
                                        newUserID |-> newUserID])
             /\ UNCHANGED lockPR
  /\ UNCHANGED <<db, clock, lockUser>>

\* updatePRQuery and COMMIT
RR_Update(p) ==
  /\ pc[p] = "rr_update"
  /\ LET l == loc[p]
         row == [prs[l.prID] EXCEPT !.reviewers =
                   replaceReviewer(l.assigned, l.oldUserID, l.newUserID)]
     IN /\ prs' = [prs EXCEPT ![l.prID] = row]
        /\ Done(p, l.op, <<l.prID, l.oldUserID>>, "OK", <<row, l.newUserID>>)
  /\ lockPR' = Release(lockPR, p)
  /\ UNCHANGED <<teams, users, clock, lockUser>>

\* --- SetUserIsActive: two autocommitted UPDATEs, no transaction
SU_Flag(p, userID, isActive) ==
  LET u == [users[userID] EXCEPT !.active = isActive]
  IN /\ users' = SetActive(users, userID, isActive)
     /\ IF isActive
        THEN Done(p, "SetUserIsActive", <<userID, isActive>>, "OK", u)
        ELSE Goto(p, "su_prs", [op |-> "SetUserIsActive", userID |-> userID, u |-> u])

SU_Start(p, userID, isActive) ==
  /\ Idle(p) /\ Invoke(p)
  /\ IF userID \notin DOMAIN users
     THEN /\ Done(p, "SetUserIsActive", <<userID, isActive>>, "NOT_FOUND", <<>>)
          /\ UNCHANGED users
     ELSE IF LockedByOther(lockUser, userID, p)
     THEN /\ Goto(p, "su_lock", [op |-> "SetUserIsActive", userID |-> userID,
                                 isActive |-> isActive])
          /\ UNCHANGED users
     ELSE SU_Flag(p, userID, isActive)
  /\ UNCHANGED <<teams, prs, lockPR, lockUser>>

SU_Lock(p) ==
  /\ pc[p] = "su_lock"
  /\ ~LockedByOther(lockUser, loc[p].userID, p)
  /\ SU_Flag(p, loc[p].userID, loc[p].isActive)
  /\ UNCHANGED <<teams, prs, clock, lockPR, lockUser>>

SU_PRs(p) ==
  /\ pc[p] = "su_prs"
  /\ LET l == loc[p]
         matched == {id \in DOMAIN prs : MatchesUser(prs[id], l.userID)}
     IN IF \E id \in matched : LockedByOther(lockPR, id, p)
        THEN /\ Goto(p, "su_prs_wait", [op |-> l.op, userID |-> l.userID, u |-> l.u,
                                        matched |-> matched])
             /\ UNCHANGED prs
        ELSE /\ prs' = CleanupUserIn(prs, l.userID, matched)
             /\ Done(p, l.op, <<l.userID, FALSE>>, "OK", l.u)
  /\ UNCHANGED <<teams, users, clock, lockPR, lockUser>>

SU_PRsWait(p) ==
  /\ pc[p] = "su_prs_wait"
  /\ LET l == loc[p]
     IN /\ \A id \in l.matched : ~LockedByOther(lockPR, id, p)
        /\ prs' = CleanupUserIn(prs, l.userID, l.matched)
        /\ Done(p, l.op, <<l.userID, FALSE>>, "OK", l.u)
  /\ UNCHANGED <<teams, users, clock, lockPR, lockUser>>

\* --- DeactivateTeamMembers: one transaction.  The team and member
\* --- selects, the UPDATE of users (row locks, visible at commit), the
\* --- cleanup UPDATE of pull_requests and COMMIT
DT_Start(p, teamName) ==
  /\ Idle(p) /\ Invoke(p)
  /\ IF ~TeamExists(teams, teamName)
     THEN Done(p, "DeactivateTeamMembers", <<teamName>>, "NOT_FOUND", <<>>)
     ELSE Goto(p, "dt_users", [op |-> "DeactivateTeamMembers", teamName |-> teamName,
                               rows |-> SelectMembers(users, teamName)])
  /\ UNCHANGED <<db, lockPR, lockUser>>

\* The UPDATE of users starts: it matches the rows of the team and takes
\* their row locks one row at a time, in the order its scan meets them.  The
\* order is not fixed here: todo holds the rows not locked yet, any of them
\* that is free may be the next, and the statement is blocked when all of them
\* are locked by another transaction.
DT_Users(p) ==
  /\ pc[p] = "dt_users"
  /\ LET l == loc[p]
         targets == {u \in DOMAIN users : users[u].team = l.teamName}
     IN Goto(p, IF targets = {} THEN "dt_prs" ELSE "dt_lock",
             [op |-> l.op, teamName |-> l.teamName, rows |-> l.rows,
              targets |-> targets, todo |-> targets])
  /\ UNCHANGED <<db, clock, lockPR, lockUser>>

DT_LockRow(p) ==
  /\ pc[p] = "dt_lock"
  /\ LET l == loc[p]
     IN \E u \in l.todo :
          /\ ~LockedByOther(lockUser, u, p)
          /\ lockUser' = Acquire(lockUser, {u}, p)
          /\ Goto(p, IF l.todo = {u} THEN "dt_prs" ELSE "dt_lock",
                  [l EXCEPT !.todo = l.todo \ {u}])
  /\ UNCHANGED <<db, clock, lockPR>>

DT_Commit(p, l, matched) ==
  LET userIDs == {l.rows[i].id : i \in 1..Len(l.rows)}
      members == [i \in 1..Len(l.rows) |-> [l.rows[i] EXCEPT !.active = FALSE]]
  IN /\ users' = DeactivateUsersIn(users, l.teamName, l.targets)
     /\ prs' = IF userIDs # {} THEN CleanupUsersIn(prs, userIDs, matched) ELSE prs
     /\ lockUser' = Release(lockUser, p)
     /\ Done(p, l.op, <<l.teamName>>, "OK", members)

DT_PRs(p) ==
  /\ pc[p] = "dt_prs"
  /\ LET l == loc[p]
         userIDs == {l.rows[i].id : i \in 1..Len(l.rows)}
         matched == {id \in DOMAIN prs : MatchesAny(prs[id], userIDs)}
     IN IF \E id \in matched : LockedByOther(lockPR, id, p)
        THEN /\ Goto(p, "dt_prs_wait", [op |-> l.op, teamName |-> l.teamName, rows |-> l.rows,
                                        targets |-> l.targets, matched |-> matched])
             /\ UNCHANGED <<users, prs, lockUser>>
        ELSE DT_Commit(p, l, matched)
  /\ UNCHANGED <<teams, clock, lockPR>>

DT_PRsWait(p) ==
  /\ pc[p] = "dt_prs_wait"
  /\ \A id \in loc[p].matched : ~LockedByOther(lockPR, id, p)
  /\ DT_Commit(p, loc[p], loc[p].matched)
  /\ UNCHANGED <<teams, clock, lockPR>>

\* --- CreateTeam: the existence check, then one transaction: INSERT of the
\* --- team, one upsert per member (row lock on the user id), COMMIT
CT_Start(p, t, ms) ==
  /\ Idle(p) /\ Invoke(p)
  /\ IF TeamExists(teams, t)
     THEN Done(p, "CreateTeam", <<t, ms>>, "TEAM_EXISTS", <<>>)
     ELSE Goto(p, "ct_insert", [op |-> "CreateTeam", t |-> t, ms |-> ms, i |-> 0])
  /\ UNCHANGED <<db, lockPR, lockUser>>

\* The insert waits for an uncommitted insert of the same name, and fails on
\* the primary key when the name is committed ("insert team: ...", not a
\* domain error).
CT_Insert(p) ==
  /\ pc[p] = "ct_insert"
  /\ LET l == loc[p]
     IN /\ ~\E q \in Procs \ {p} : pc[q] = "ct_upsert" /\ loc[q].t = l.t
        /\ IF TeamExists(teams, l.t)
           THEN Done(p, l.op, <<l.t, l.ms>>, "ERROR", <<>>)
           ELSE Goto(p, "ct_upsert", [l EXCEPT !.i = 1])
  /\ UNCHANGED <<db, clock, lockPR, lockUser>>

\* variant: the statements of CreateTeam run outside the transaction, the
\* team row and each member row are committed as they are written
CT_Upsert_Autocommit(p) ==
  /\ pc[p] = "ct_upsert"
  /\ LET l == loc[p]
     IN /\ l.i <= Len(l.ms)
        /\ ~LockedByOther(lockUser, l.ms[l.i].id, p)
        /\ teams' = teams \cup {l.t}
        /\ users' = UpsertUser(users, l.ms[l.i], l.t)
        /\ Goto(p, "ct_upsert", [l EXCEPT !.i = l.i + 1])
  /\ UNCHANGED <<prs, clock, lockPR, lockUser>>

CT_Upsert(p) ==
  /\ pc[p] = "ct_upsert"
  /\ LET l == loc[p]
     IN /\ l.i <= Len(l.ms)
        /\ ~LockedByOther(lockUser, l.ms[l.i].id, p)
        /\ lockUser' = Acquire(lockUser, {l.ms[l.i].id}, p)
        /\ Goto(p, "ct_upsert", [l EXCEPT !.i = l.i + 1])
  /\ UNCHANGED <<db, clock, lockPR>>

CT_Commit(p) ==
  /\ pc[p] = "ct_upsert"
  /\ LET l == loc[p]
     IN /\ l.i > Len(l.ms)
        /\ teams' = teams \cup {l.t}
        /\ users' = UpsertMembers(users, l.ms, l.t)
        /\ lockUser' = Release(lockUser, p)
        /\ Done(p, l.op, <<l.t, l.ms>>, "OK", l.ms)
  /\ UNCHANGED <<prs, clock, lockPR>>

\* --- deadlock detection of the store
\* session p waits for a lock that the transaction of session q holds
WaitsFor(p, q) ==
  /\ p # q
  /\ \/ /\ pc[p] = "ct_insert"
        /\ pc[q] = "ct_upsert" /\ loc[q].t = loc[p].t
     \/ /\ pc[p] = "ct_upsert" /\ loc[p].i <= Len(loc[p].ms)
        /\ LockedByOther(lockUser, loc[p].ms[loc[p].i].id, p)
     \/ /\ pc[p] = "dt_lock"
        /\ \A u \in loc[p].todo : LockedByOther(lockUser, u, p)
     \/ pc[p] = "su_lock" /\ LockedByOther(lockUser, loc[p].userID, p)
     \/ pc[p] \in {"rr_lock", "mp_wait"} /\ LockedByOther(lockPR, loc[p].prID, p)
     \/ /\ pc[p] \in {"su_prs_wait", "dt_prs_wait"}
        /\ \E id \in loc[p].matched : LockedByOther(lockPR, id, p)

ArgsOf(l) ==
  CASE l.op = "CreateTeam" -> <<l.t, l.ms>>
    [] l.op = "DeactivateTeamMembers" -> <<l.teamName>>
    [] l.op = "ReassignReviewer" -> <<l.prID, l.oldUserID>>
    [] l.op = "MergePullRequest" -> <<l.prID>>
    [] l.op = "SetUserIsActive" -> <<l.userID, FALSE>>

\* The store aborts the transaction of a session that waits in a cycle: its
\* locks are released, nothing of it is stored, and the operation returns the
\* wrapped storage error.
DeadlockAbort(p) ==
  /\ \E q \in Procs : WaitsFor(p, q) /\ WaitsFor(q, p)
  /\ Done(p, loc[p].op, ArgsOf(loc[p]), "ERROR", <<>>)
  /\ lockUser' = Release(lockUser, p)
  /\ lockPR' = Release(lockPR, p)
  /\ UNCHANGED <<db, clock>>

SeedProc == Min(Procs)

\* The concurrent sessions start from the store as it is after
\* CreateTeam(SeedTeam, SeedMembers) on the empty store.
SeedTeam == "T1"
SeedMembers ==
  <<Member(1, "a", TRUE), Member(2, "a", TRUE), Member(3, "a", TRUE), Member(4, "a", TRUE)>>

InitConc ==
  /\ teams = {SeedTeam}
  /\ users = UpsertMembers(<<>>, SeedMembers, SeedTeam)
  /\ prs = <<>>
  /\ nops = 1
  /\ call = [p \in Procs |-> IF p = SeedProc THEN 1 ELSE 0]
  /\ ret = [p \in Procs |-> IF p = SeedProc
                            THEN Returned("CreateTeam", <<SeedTeam, SeedMembers>>, "OK", SeedMembers)
                            ELSE NoRet]
  /\ pc = [p \in Procs |-> "idle"]
  /\ loc = [p \in Procs |-> NoLoc]
  /\ lockPR = <<>>
  /\ lockUser = <<>>
  /\ base = [teams |-> teams, users |-> users, prs |-> prs, n |-> nops]

\* Inputs of the concurrent sessions
ConcTeams == Teams \ {SeedTeam}
ConcMemberLists ==
  { <<Member(3, "b", FALSE), Member(2, "a", TRUE)>> }
ConcAuthors == {1}
ConcOld == {2, 3}
ConcFlip == {2, 4}

NextConc ==
  \E p \in Procs :
    \/ \E t \in ConcTeams, ms \in ConcMemberLists : CT_Start(p, t, ms)
    \/ CT_Insert(p)
    \/ CT_Upsert(p)
    \/ CT_Commit(p)
    \/ \E id \in PRs, name \in PRNames, a \in ConcAuthors : CP_Start(p, id, name, a)
    \/ CP_Reviewers(p)
    \/ CP_Insert(p)
    \/ \E id \in PRs : MP_Start(p, id)
    \/ MP_Wait(p)
    \/ \E id \in PRs, u \in ConcOld : RR_Start(p, id, u)
    \/ RR_Lock(p)
    \/ RR_Team(p)
    \/ RR_Cand(p)
    \/ RR_Update(p)
    \/ \E u \in ConcFlip, a \in BOOLEAN : SU_Start(p, u, a)
    \/ SU_Lock(p)
    \/ SU_PRs(p)
    \/ SU_PRsWait(p)
    \/ \E t \in Teams : DT_Start(p, t)
    \/ DT_Users(p)
    \/ DT_LockRow(p)
    \/ DT_PRs(p)
    \/ DT_PRsWait(p)
    \/ DeadlockAbort(p)

SpecConc == InitConc /\ [][NextConc]_vars

\* ------------------------------------- one at a time, with the reads
\* GetUserReviews (handler /users/getReview) and GetAssignmentStats run as
\* operations of their own.  Run one at a time, the two statements of
\* GetAssignmentStats read the same store.
UserGetReview(userID) ==
  /\ Invoke(SeqProc)
  /\ Reply("GetUserReviews", <<userID>>, "OK", GetUserReviews(prs, userID))
  /\ UNCHANGED <<db, conc>>

GetAssignmentStats ==
  /\ Invoke(SeqProc)
  /\ Reply("GetAssignmentStats", <<>>, "OK",
           [by_user |-> StatsByUser(prs), by_pr |-> StatsByPR(prs)])
  /\ UNCHANGED <<db, conc>>

\* The handlers in front of the service.  A field the request does not carry
\* decodes to the empty value of its type: "" for a name, NULL for an id.
\* http.Error(w, "<field> is required", 400): the service is not called, the
\* answer is the handler's own.
BadRequest(op, args, field) ==
  /\ Invoke(SeqProc)
  /\ Reply(op, args, "BAD_REQUEST", field \o " is required")
  /\ UNCHANGED <<db, conc>>

handleTeamAdd(t, ms) == CreateTeam(t, ms)

handleTeamGet(t) ==
  IF t = "" THEN BadRequest("handleTeamGet", <<t>>, "team_name")
  ELSE GetTeam(t)

handleTeamDeactivateMembers(t) ==
  IF t = "" THEN BadRequest("handleTeamDeactivateMembers", <<t>>, "team_name")
  ELSE DeactivateTeamMembers(t)

handleUserSetIsActive(u, a) ==
  IF u = NULL THEN BadRequest("handleUserSetIsActive", <<u, a>>, "user_id")
  ELSE SetUserIsActive(u, a)

handleUserGetReview(u) ==
  IF u = NULL THEN BadRequest("handleUserGetReview", <<u>>, "user_id")
  ELSE UserGetReview(u)

\* variant: the author is checked before the name
handlePullRequestCreate_AuthorFirst(id, name, a) ==
  IF id = NULL THEN BadRequest("handlePullRequestCreate", <<id, name, a>>, "pull_request_id")
  ELSE IF a = NULL THEN BadRequest("handlePullRequestCreate", <<id, name, a>>, "author_id")
  ELSE IF name = "" THEN BadRequest("handlePullRequestCreate", <<id, name, a>>, "pull_request_name")
  ELSE CreatePullRequest(id, name, a)

handlePullRequestCreate(id, name, a) ==
  IF id = NULL THEN BadRequest("handlePullRequestCreate", <<id, name, a>>, "pull_request_id")
  ELSE IF name = "" THEN BadRequest("handlePullRequestCreate", <<id, name, a>>, "pull_request_name")
  ELSE IF a = NULL THEN BadRequest("handlePullRequestCreate", <<id, name, a>>, "author_id")
  ELSE CreatePullRequest(id, name, a)

handlePullRequestMerge(id) ==
  IF id = NULL THEN BadRequest("handlePullRequestMerge", <<id>>, "pull_request_id")
  ELSE MergePullRequest(id)

handlePullRequestReassign(id, u) ==
  IF id = NULL THEN BadRequest("handlePullRequestReassign", <<id, u>>, "pull_request_id")
  ELSE IF u = NULL THEN BadRequest("handlePullRequestReassign", <<id, u>>, "old_user_id")
  ELSE ReassignReviewer(id, u)

handleStatsAssignments == GetAssignmentStats

\* The writes take their authors, old reviewers and users to (de)activate
\* from the input sets of the concurrent sessions; every field may be absent.
ReqTeams == Teams \cup {""}
ReqPRs == PRs \cup {NULL}
ReqPRNames == PRNames \cup {""}

NextReads ==
  \/ \E t \in Teams, ms \in MemberLists : handleTeamAdd(t, ms)
  \/ \E t \in ReqTeams : handleTeamGet(t)
  \/ \E id \in ReqPRs, name \in ReqPRNames, a \in ConcAuthors \cup {NULL} :
       handlePullRequestCreate(id, name, a)
  \/ \E id \in ReqPRs : handlePullRequestMerge(id)
  \/ \E id \in ReqPRs, u \in ConcOld \cup {NULL} : handlePullRequestReassign(id, u)
  \/ \E u \in ConcFlip \cup {NULL}, a \in BOOLEAN : handleUserSetIsActive(u, a)
  \/ \E t \in ReqTeams : handleTeamDeactivateMembers(t)
  \/ \E u \in Users \cup {NULL} : handleUserGetReview(u)
  \/ handleStatsAssignments

SpecReads == Init /\ [][NextReads]_vars

\* ------------------------- concurrent sessions on stored pull requests
\* The store as it is after the set-up of the load script and two of its
\* CreatePullRequest calls: the seeded team and two pull requests of its
\* first member, each with the first two other members as reviewers.  The
\* set-up counts as invocation 1, the creation time of both pull requests; no
\* call of the run has returned yet.
SeedAuthor == Min(ConcAuthors)
SeedPRs == {1, 2}
SeedPRName == CHOOSE n \in PRNames : TRUE

InitPRs ==
  /\ teams = {SeedTeam}
  /\ users = UpsertMembers(<<>>, SeedMembers, SeedTeam)
  /\ prs = [id \in SeedPRs |->
              NewPR(SeedPRName, SeedAuthor,
                    FirstReviewers(SelectReviewers(users, SeedTeam, SeedAuthor)), 1)]
  /\ nops = 1
  /\ call = [p \in Procs |-> 0]
  /\ ret = [p \in Procs |-> NoRet]
  /\ pc = [p \in Procs |-> "idle"]
  /\ loc = [p \in Procs |-> NoLoc]
  /\ lockPR = <<>>
  /\ lockUser = <<>>
  /\ base = [teams |-> teams, users |-> users, prs |-> prs, n |-> nops]

\* the reassign and merge calls of the run
NextPRs ==
  \E p \in Procs :
    \/ \E id \in PRs, u \in ConcOld : RR_Start(p, id, u)
    \/ RR_Lock(p)
    \/ RR_Team(p)
    \/ RR_Cand(p)
    \/ RR_Update(p)
    \/ \E id \in PRs : MP_Start(p, id)
    \/ MP_Wait(p)

SpecPRs == InitPRs /\ [][NextPRs]_vars

\* -------------------------- GetAssignmentStats next to concurrent writes
\* --- GetAssignmentStats: two statements on the pool, no transaction; each
\* --- reads the rows committed when it runs and waits for no lock
GS_Start(p) ==
  /\ Idle(p) /\ Invoke(p)
  /\ Goto(p, "gs_bypr", [op |-> "GetAssignmentStats", by_user |-> StatsByUser(prs)])
  /\ UNCHANGED <<db, lockPR, lockUser>>

GS_ByPR(p) ==
  /\ pc[p] = "gs_bypr"
  /\ Done(p, "GetAssignmentStats", <<>>, "OK",
          [by_user |-> loc[p].by_user, by_pr |-> StatsByPR(prs)])
  /\ UNCHANGED <<db, clock, lockPR, lockUser>>

\* the stats, deactivation and reassign calls of the run.  None of them
\* holds the lock of a users row after its step, so SetUserIsActive never
\* has to wait for one.
NextStats ==
  \E p \in Procs :
    \/ GS_Start(p)
    \/ GS_ByPR(p)
    \/ \E u \in ConcFlip, a \in BOOLEAN : SU_Start(p, u, a)
    \/ SU_PRs(p)
    \/ SU_PRsWait(p)
    \/ \E id \in PRs, u \in ConcOld : RR_Start(p, id, u)
    \/ RR_Lock(p)
    \/ RR_Team(p)
    \/ RR_Cand(p)
    \/ RR_Update(p)

SpecStats == InitPRs /\ [][NextStats]_vars

\* ------------------------------ CreateTeam next to concurrent GetTeam
\* --- GetTeam: selectTeamQuery and selectMembersQuery, two statements on the
\* --- pool; each reads the committed rows
GT_Start(p, name) ==
  /\ Idle(p) /\ Invoke(p)
  /\ IF ~TeamExists(teams, name)
     THEN Done(p, "GetTeam", <<name>>, "NOT_FOUND", <<>>)
     ELSE Goto(p, "gt_members", [op |-> "GetTeam", name |-> name])
  /\ UNCHANGED <<db, lockPR, lockUser>>

GT_Members(p) ==
  /\ pc[p] = "gt_members"
  /\ Done(p, "GetTeam", <<loc[p].name>>, "OK",
          [name |-> loc[p].name, members |-> SelectMembers(users, loc[p].name)])
  /\ UNCHANGED <<db, clock, lockPR, lockUser>>

\* An upsert of the member loop fails (the context is cancelled, the
\* connection is lost): CreateTeam returns the wrapped error and the deferred
\* Rollback drops what the transaction wrote.
CT_UpsertFails(p) ==
  /\ pc[p] = "ct_upsert"
  /\ loc[p].i <= Len(loc[p].ms)
  /\ Done(p, loc[p].op, <<loc[p].t, loc[p].ms>>, "ERROR", <<>>)
  /\ lockUser' = Release(lockUser, p)
  /\ UNCHANGED <<db, clock, lockPR>>

\* the CreateTeam and GetTeam calls of the run
NextTeams ==
  \E p \in Procs :
    \/ \E t \in ConcTeams, ms \in ConcMemberLists : CT_Start(p, t, ms)
    \/ CT_Insert(p)
    \/ CT_Upsert(p)
    \/ CT_UpsertFails(p)
    \/ CT_Commit(p)
    \/ \E t \in Teams : GT_Start(p, t)
    \/ GT_Members(p)

SpecTeams == InitConc /\ [][NextTeams]_vars

\* ----------------------------------------------------------- HTTP layer
\* The codes of app.Error; every other error of the service is a wrapped
\* storage error ("ERROR").
DomainCodes ==
  {"TEAM_EXISTS", "PR_EXISTS", "PR_MERGED", "NOT_ASSIGNED", "NO_CANDIDATE", "NOT_FOUND"}

\* variant: every error is answered as an internal error
writeAppError_Generic(code) ==
  [status |-> 500, code |-> "", text |-> "internal error"]

\* Handler.writeAppError: the status and the body {"error": {"code": ...}} of
\* an app.Error, http.Error(w, "internal error", 500) for anything else
writeAppError(code) ==
  IF code \in DomainCodes
  THEN [status |-> CASE code = "TEAM_EXISTS" -> 400
                     [] code \in {"PR_EXISTS", "PR_MERGED", "NO_CANDIDATE", "NOT_ASSIGNED"} -> 409
                     [] code = "NOT_FOUND" -> 404
                     [] OTHER -> 500,
        code |-> code, text |-> ""]
  ELSE [status |-> 500, code |-> "", text |-> "internal error"]

\* what the handler of the operation answers to the call that returned r
Response(r) ==
  IF r.code = "OK"
  THEN [status |-> IF r.op \in {"CreateTeam", "CreatePullRequest"} THEN 201 ELSE 200,
        code |-> "", text |-> ""]
  ELSE IF r.code = "BAD_REQUEST"
  THEN [status |-> 400, code |-> "", text |-> r.out]
  ELSE writeAppError(r.code)

\* ------------------------------------------------------------ properties
\* session p returns from an operation in this step
Completes(p) ==
  /\ pc'[p] = "idle"
  /\ \/ pc[p] # "idle"
     \/ nops' # nops /\ Idle(p)

Reviewers(id) == prs[id].reviewers
IsMember(s, x) == \E i \in 1..Len(s) : s[i] = x

\* C1: in every reachable state, under any interleaving of the operations,
\* every pull request has at most 2 assigned reviewers, no user id twice in
\* its reviewer list, and its author is not in its reviewer list.
C1_ReviewersWellFormed ==
  \A id \in DOMAIN prs :
    /\ Len(Reviewers(id)) <= 2
    /\ \A i, j \in 1..Len(Reviewers(id)) : i # j => Reviewers(id)[i] # Reviewers(id)[j]
    /\ ~IsMember(Reviewers(id), prs[id].author)

\* a reassignment has succeeded on a pull request that has two reviewers
C1_Witness ==
  \E p \in Procs :
    /\ pc[p] = "idle" /\ ret[p].op = "ReassignReviewer" /\ ret[p].code = "OK"
    /\ Len(Reviewers(ret[p].args[1])) = 2

\* C2: once a pull request is MERGED its reviewer list and merge timestamp
\* never change, whatever runs afterwards or concurrently: no step changes
\* them, and a ReassignReviewer that returns while the pull request is MERGED
\* returns PR_MERGED.
C2_MergedFrozen ==
  [][ /\ \A id \in DOMAIN prs :
           prs[id].status = "MERGED" =>
             /\ id \in DOMAIN prs'
             /\ prs'[id].reviewers = prs[id].reviewers
             /\ prs'[id].mergedAt = prs[id].mergedAt
      /\ \A p \in Procs :
           ( /\ Completes(p)
             /\ ret'[p].op = "ReassignReviewer"
             /\ ret'[p].args[1] \in DOMAIN prs
             /\ prs[ret'[p].args[1]].status = "MERGED" )
           => ret'[p].code = "PR_MERGED"
    ]_vars

\* a MERGED pull request still lists a reviewer that SetUserIsActive(u, false)
\* has deactivated
C2_Witness ==
  \E id \in DOMAIN prs, p \in Procs :
    /\ prs[id].status = "MERGED"
    /\ pc[p] = "idle" /\ ret[p].op = "SetUserIsActive" /\ ret[p].code = "OK"
    /\ ret[p].args[2] = FALSE
    /\ IsMember(Reviewers(id), ret[p].args[1])
    /\ ~users[ret[p].args[1]].active

\* C3: the status of a pull request only moves OPEN -> MERGED, never back,
\* and in every reachable state the merge timestamp is null exactly when the
\* status is OPEN and set exactly when it is MERGED; once set it is kept.
C3_StatusAndMergedAt ==
  [][ /\ \A id \in DOMAIN prs :
           /\ id \in DOMAIN prs'
           /\ prs[id].status = "MERGED" =>
                prs'[id].status = "MERGED" /\ prs'[id].mergedAt = prs[id].mergedAt
      /\ \A id \in DOMAIN prs' :
           /\ prs'[id].status \in {"OPEN", "MERGED"}
           /\ prs'[id].status = "OPEN" <=> prs'[id].mergedAt = NULL
    ]_vars

\* MergePullRequest has been called again on a MERGED pull request
C3_Witness ==
  \E id \in DOMAIN prs :
    /\ prs[id].status = "MERGED"
    /\ ret[SeqProc].op = "MergePullRequest" /\ ret[SeqProc].code = "OK"
    /\ ret[SeqProc].args[1] = id
    /\ prs[id].mergedAt < nops

\* the last operation of the one-at-a-time runs
Last == ret[SeqProc]
Called(op, code) == Last.op = op /\ Last.code = code
Called2(op, code) == Completes(SeqProc) /\ ret'[SeqProc].op = op /\ ret'[SeqProc].code = code

\* C4: a successful CreatePullRequest(id, name, authorID) stores an OPEN pull
\* request with null merge timestamp whose reviewers are the first two ids,
\* ascending, of the active users of the author's team other than the author
\* (one when only one exists, none when none exists).
C4_Pool(authorID) ==
  {u \in DOMAIN users : users[u].team = users[authorID].team /\ users[u].active /\ u # authorID}

C4_CreateAssignsFirstTwo ==
  Called("CreatePullRequest", "OK") =>
    LET id   == Last.args[1]
        pool == C4_Pool(Last.args[3])
        rv   == Reviewers(id)
    IN /\ id \in DOMAIN prs
       /\ prs[id].status = "OPEN" /\ prs[id].mergedAt = NULL
       /\ prs[id].author = Last.args[3] /\ prs[id].name = Last.args[2]
       /\ Len(rv) = IF Cardinality(pool) < 2 THEN Cardinality(pool) ELSE 2
       /\ \A i \in 1..Len(rv) : rv[i] \in pool
       /\ \A i, j \in 1..Len(rv) : i < j => rv[i] < rv[j]
       /\ \A u \in pool : IsMember(rv, u) \/ \A i \in 1..Len(rv) : rv[i] < u

\* a pull request was created where more than two users were eligible
C4_Witness ==
  /\ Called("CreatePullRequest", "OK")
  /\ Cardinality(C4_Pool(Last.args[3])) > 2
  /\ Len(Reviewers(Last.args[1])) = 2

\* C5: a successful ReassignReviewer(prID, oldUserID) puts, at the position
\* of oldUserID, a user that is active, on oldUserID's team, not the author,
\* not oldUserID and not a reviewer before; the other positions and the
\* length are kept, oldUserID is gone, and the returned id is the stored one.
C5_ReassignReplacesInPlace ==
  [][ Called2("ReassignReviewer", "OK") =>
        LET id     == ret'[SeqProc].args[1]
            old    == ret'[SeqProc].args[2]
            new    == ret'[SeqProc].out[2]
            before == prs[id].reviewers
            after  == prs'[id].reviewers
        IN /\ Len(after) = Len(before)
           /\ \E i \in 1..Len(before) :
                /\ before[i] = old /\ after[i] = new
                /\ \A j \in 1..Len(before) : j # i => after[j] = before[j]
           /\ new \in DOMAIN users /\ users[new].active
           /\ users[new].team = users[old].team
           /\ new # prs[id].author /\ new # old
           /\ ~IsMember(before, new)
           /\ ~IsMember(after, old)
           /\ ret'[SeqProc].out[1] = prs'[id]
    ]_vars

\* a reviewer in second position was replaced
C5_Witness ==
  /\ Called("ReassignReviewer", "OK")
  /\ Len(Reviewers(Last.args[1])) = 2
  /\ Reviewers(Last.args[1])[2] = Last.out[2]

\* C6: ReassignReviewer on an OPEN pull request with oldUserID assigned
\* fails with NO_CANDIDATE exactly when oldUserID's team has no user that is
\* active, not the author, not oldUserID and not already a reviewer; the
\* reviewer list is then unchanged.
C6_NoCandidate ==
  [][ ( /\ Completes(SeqProc) /\ ret'[SeqProc].op = "ReassignReviewer"
        /\ ret'[SeqProc].args[1] \in DOMAIN prs
        /\ prs[ret'[SeqProc].args[1]].status = "OPEN"
        /\ IsMember(prs[ret'[SeqProc].args[1]].reviewers, ret'[SeqProc].args[2])
        /\ ret'[SeqProc].args[2] \in DOMAIN users ) =>
        LET id  == ret'[SeqProc].args[1]
            old == ret'[SeqProc].args[2]
            none == ~\E u \in DOMAIN users :
                       /\ users[u].team = users[old].team /\ users[u].active
                       /\ u # prs[id].author /\ u # old
                       /\ ~IsMember(prs[id].reviewers, u)
        IN /\ ret'[SeqProc].code = "NO_CANDIDATE" <=> none
           /\ none => prs' = prs
    ]_vars

\* a reassignment failed with NO_CANDIDATE although the team has another
\* active user, who is already a reviewer
C6_Witness ==
  /\ Called("ReassignReviewer", "NO_CANDIDATE")
  /\ Len(Reviewers(Last.args[1])) = 2
  /\ \A i \in 1..2 : users[Reviewers(Last.args[1])[i]].active

\* a stands before b in s
Before(s, a, b) == \E i, j \in 1..Len(s) : i < j /\ s[i] = a /\ s[j] = b

\* C7: after SetUserIsActive(u, false) has succeeded, u is inactive, u is a
\* reviewer of no pull request that is not MERGED, every MERGED pull request
\* that had u still has u, and the other reviewers of every pull request are
\* the same, in the same relative order.
C7_DeactivateUserCleansOpen ==
  [][ \A u \in Users :
        ( Called2("SetUserIsActive", "OK") /\ ret'[SeqProc].args = <<u, FALSE>> ) =>
          /\ ~users'[u].active
          /\ \A id \in DOMAIN prs' :
               /\ id \in DOMAIN prs
               /\ prs'[id].status # "MERGED" => ~IsMember(prs'[id].reviewers, u)
               /\ (prs[id].status = "MERGED" /\ IsMember(prs[id].reviewers, u))
                    => IsMember(prs'[id].reviewers, u)
               /\ \A a \in Users \ {u} :
                    IsMember(prs'[id].reviewers, a) <=> IsMember(prs[id].reviewers, a)
               /\ \A a, b \in Users \ {u} :
                    Before(prs'[id].reviewers, a, b) <=> Before(prs[id].reviewers, a, b)
    ]_vars

\* u was deactivated while reviewer of a MERGED pull request, which keeps u
C7_Witness ==
  /\ Called("SetUserIsActive", "OK") /\ Last.args[2] = FALSE
  /\ ~users[Last.args[1]].active
  /\ \E id \in DOMAIN prs :
       /\ prs[id].status = "MERGED"
       /\ Len(Reviewers(id)) = 2
       /\ IsMember(Reviewers(id), Last.args[1])

\* C8: after DeactivateTeamMembers(T) has succeeded, every user of team T is
\* inactive, no member of T is a reviewer of a pull request that is not
\* MERGED (whatever the author's team), MERGED pull requests keep their
\* reviewers, the returned team lists every member of T as inactive, and
\* GetUserReviews of a member returns no pull request that is not MERGED.
C8_Members(T) == {u \in DOMAIN users : users[u].team = T}

C8_DeactivateTeam ==
  [][ \A T \in Teams :
        ( Called2("DeactivateTeamMembers", "OK") /\ ret'[SeqProc].args = <<T>> ) =>
          LET members == {u \in DOMAIN users' : users'[u].team = T}
              out     == ret'[SeqProc].out
          IN /\ \A u \in members : ~users'[u].active
             /\ \A id \in DOMAIN prs' :
                  /\ id \in DOMAIN prs
                  /\ prs'[id].status # "MERGED" =>
                       \A u \in members : ~IsMember(prs'[id].reviewers, u)
                  /\ prs[id].status = "MERGED" => prs'[id].reviewers = prs[id].reviewers
             /\ {out[i].id : i \in 1..Len(out)} = members
             /\ \A i \in 1..Len(out) : ~out[i].active
             /\ \A u \in members :
                  \A i \in 1..Len(GetUserReviews(prs', u)) :
                    GetUserReviews(prs', u)[i].status = "MERGED"
    ]_vars

\* a team was deactivated of which two members are the reviewers of a
\* MERGED pull request
C8_Witness ==
  /\ Called("DeactivateTeamMembers", "OK")
  /\ \E id \in DOMAIN prs :
       /\ prs[id].status = "MERGED"
       /\ Len(Reviewers(id)) = 2
       /\ \A i \in 1..2 : Reviewers(id)[i] \in C8_Members(Last.args[1])
       /\ Len(Last.out) > 2

\* sessions p and q have both returned, and their last operations are the
\* two most recent invocations
LastTwo(p, q) ==
  /\ p # q
  /\ pc[p] = "idle" /\ pc[q] = "idle"
  /\ {call[p], call[q]} = {nops - 1, nops}

\* C9: for every interleaving of CreatePullRequest with
\* SetUserIsActive(u, false), once both have returned and u is still
\* inactive, u is not a reviewer of the newly created OPEN pull request.
C9_CreateVsDeactivateUser ==
  \A p, q \in Procs :
    ( /\ LastTwo(p, q)
      /\ ret[p].op = "CreatePullRequest" /\ ret[p].code = "OK"
      /\ ret[q].op = "SetUserIsActive" /\ ret[q].code = "OK"
      /\ ret[q].args[2] = FALSE
      /\ ~users[ret[q].args[1]].active
      /\ prs[ret[p].args[1]].status = "OPEN" )
    => ~IsMember(Reviewers(ret[p].args[1]), ret[q].args[1])

\* C10: for every interleaving of CreatePullRequest with
\* DeactivateTeamMembers(T), once both have returned, the new pull request,
\* if not MERGED, has no member of T as reviewer.
C10_CreateVsDeactivateTeam ==
  \A p, q \in Procs :
    ( /\ LastTwo(p, q)
      /\ ret[p].op = "CreatePullRequest" /\ ret[p].code = "OK"
      /\ ret[q].op = "DeactivateTeamMembers" /\ ret[q].code = "OK"
      /\ prs[ret[p].args[1]].status # "MERGED" )
    => \A u \in C8_Members(ret[q].args[1]) : ~IsMember(Reviewers(ret[p].args[1]), u)

\* C11: for every interleaving of ReassignReviewer(p, old) with
\* SetUserIsActive(c, false) or DeactivateTeamMembers of c's team, once both
\* have returned and p is not MERGED, c is not in p's reviewer list.
C11_ReassignVsDeactivate ==
  \A p, q \in Procs :
    ( /\ LastTwo(p, q)
      /\ ret[p].op = "ReassignReviewer"
      /\ ret[p].args[1] \in DOMAIN prs
      /\ prs[ret[p].args[1]].status # "MERGED" )
    => /\ ( /\ ret[q].op = "SetUserIsActive" /\ ret[q].code = "OK"
            /\ ret[q].args[2] = FALSE )
          => ~IsMember(Reviewers(ret[p].args[1]), ret[q].args[1])
       /\ ( ret[q].op = "DeactivateTeamMembers" /\ ret[q].code = "OK" )
          => \A c \in C8_Members(ret[q].args[1]) :
               ~IsMember(Reviewers(ret[p].args[1]), c)

\* two reassignments of the same, existing pull request were the last two
\* operations
C12_Pairs ==
  \A p, q \in Procs :
    ( /\ LastTwo(p, q)
      /\ ret[p].op = "ReassignReviewer" /\ ret[q].op = "ReassignReviewer"
      /\ ret[p].args[1] = ret[q].args[1]
      /\ ret[p].code # "NOT_FOUND" /\ ret[q].code # "NOT_FOUND" )
    => /\ (ret[p].args[2] = ret[q].args[2] /\ ret[p].code = "OK")
            => ret[q].code = "NOT_ASSIGNED"
       /\ (ret[p].code = "OK" /\ ret[q].code = "OK")
            => ret[p].out[2] # ret[q].out[2]

\* C12: concurrent ReassignReviewer and MergePullRequest calls on one pull
\* request act on its row one after another.  A reassignment that succeeds
\* replaces oldUserID in the list stored at its commit, on an OPEN row; a
\* reassignment fails with NOT_ASSIGNED only when oldUserID is not in the
\* stored list; a merge keeps the stored list; no other row changes; two
\* reassignments of the same old reviewer never both succeed (the other gets
\* NOT_ASSIGNED) and two reassignments never insert the same replacement.
C12_ReassignMergeSerialized ==
  [][ /\ \A p \in Procs :
           ( Completes(p) /\ ret'[p].op = "ReassignReviewer" /\ ret'[p].code = "OK" ) =>
             LET id  == ret'[p].args[1]
                 old == ret'[p].args[2]
                 new == ret'[p].out[2]
             IN /\ id \in DOMAIN prs /\ prs[id].status = "OPEN"
                /\ Len(prs'[id].reviewers) = Len(prs[id].reviewers)
                /\ \E i \in 1..Len(prs[id].reviewers) :
                     /\ prs[id].reviewers[i] = old /\ prs'[id].reviewers[i] = new
                     /\ \A j \in 1..Len(prs[id].reviewers) :
                          j # i => prs'[id].reviewers[j] = prs[id].reviewers[j]
                /\ ~IsMember(prs[id].reviewers, new)
                /\ prs'[id].status = "OPEN"
                /\ ret'[p].out[1] = prs'[id]
                /\ \A x \in DOMAIN prs : x # id => prs'[x] = prs[x]
      /\ \A p \in Procs :
           ( Completes(p) /\ ret'[p].op = "ReassignReviewer"
             /\ ret'[p].code = "NOT_ASSIGNED" ) =>
             /\ ~IsMember(prs[ret'[p].args[1]].reviewers, ret'[p].args[2])
             /\ prs' = prs
      /\ \A p \in Procs :
           ( Completes(p) /\ ret'[p].op = "MergePullRequest" /\ ret'[p].code = "OK" ) =>
             LET id == ret'[p].args[1]
             IN /\ id \in DOMAIN prs
                /\ prs'[id].status = "MERGED"
                /\ prs'[id].reviewers = prs[id].reviewers
                /\ prs'[id].mergedAt # NULL
                /\ prs[id].mergedAt # NULL => prs'[id].mergedAt = prs[id].mergedAt
                /\ ret'[p].out = prs'[id]
                /\ \A x \in DOMAIN prs : x # id => prs'[x] = prs[x]
      /\ C12_Pairs'
    ]_vars

\* a reassignment has committed while a later reassignment of the same
\* reviewer of the same pull request waits for the row lock
C12_Witness ==
  \E p, q \in Procs :
    /\ pc[p] = "idle" /\ ret[p].op = "ReassignReviewer" /\ ret[p].code = "OK"
    /\ pc[q] = "rr_lock" /\ call[p] < call[q]
    /\ loc[q].prID = ret[p].args[1] /\ loc[q].oldUserID = ret[p].args[2]

\* C13: when two CreatePullRequest calls with the same id race, exactly one
\* creates the pull request, the other fails with PR_EXISTS, and the stored
\* pull request is the winner's.
C13_CreateRace ==
  \A p, q \in Procs :
    ( /\ LastTwo(p, q)
      /\ ret[p].op = "CreatePullRequest" /\ ret[q].op = "CreatePullRequest"
      /\ ret[p].args[1] = ret[q].args[1]
      /\ ret[p].code = "OK" )
    => /\ ret[q].code = "PR_EXISTS"
       /\ ret[p].args[1] \in DOMAIN prs
       /\ prs[ret[p].args[1]].name = ret[p].out.name
       /\ prs[ret[p].args[1]].author = ret[p].out.author
       /\ prs[ret[p].args[1]].createdAt = ret[p].out.createdAt

\* timestamps compared only as null / not null
NormRow(row) ==
  [row EXCEPT !.createdAt = NULL,
              !.mergedAt = IF row.mergedAt = NULL THEN NULL ELSE MaxOps]
NormPRs(ps) == [id \in DOMAIN ps |-> NormRow(ps[id])]
NormOut(op, code, out) ==
  IF code # "OK" THEN out
  ELSE IF op \in {"CreatePullRequest", "MergePullRequest"} THEN NormRow(out)
  ELSE IF op = "ReassignReviewer" THEN <<NormRow(out[1]), out[2]>>
  ELSE out

\* result r of a session is one of the results o of the operation run alone
SameResult(r, o) ==
  r.code = o.code /\ NormOut(r.op, r.code, r.out) = NormOut(r.op, o.code, o.out)

\* the operations of sessions a then b, each run as a whole from the store
\* base, give the results the sessions returned and the store as it is now
RunsAs(a, b) ==
  \E o1 \in OutcomesAt(base, ret[a].op, ret[a].args, call[a]) :
    /\ SameResult(ret[a], o1)
    /\ \E o2 \in OutcomesAt(o1, ret[b].op, ret[b].args, call[b]) :
         /\ SameResult(ret[b], o2)
         /\ o2.teams = teams /\ o2.users = users
         /\ NormPRs(o2.prs) = NormPRs(prs)

\* C14: every operation is linearizable: when two operations have run
\* concurrently from a store on which nothing else was running, and both have
\* returned, their results and the store equal those of running the two
\* operations one after the other, each as a whole, in one of the two orders.
C14_Linearizable ==
  \A p, q \in Procs :
    ( LastTwo(p, q) /\ base.n = nops - 2 ) => ( RunsAs(p, q) \/ RunsAs(q, p) )

\* C15: MergePullRequest is idempotent: every successful call returns the
\* stored row, and a call on a pull request that is already MERGED succeeds,
\* returns the merge timestamp stored by the first call and leaves the whole
\* row (status, merge timestamp, reviewers, name, author, creation timestamp)
\* and the rest of the store unchanged.
C15_MergeIdempotent ==
  /\ Called("MergePullRequest", "OK") =>
       /\ Last.args[1] \in DOMAIN prs
       /\ Last.out = prs[Last.args[1]]
       /\ Last.out.status = "MERGED" /\ Last.out.mergedAt # NULL
       /\ ( Last.args[1] \in DOMAIN base.prs
            /\ base.prs[Last.args[1]].status = "MERGED" ) =>
            /\ prs = base.prs /\ users = base.users /\ teams = base.teams
            /\ Last.out.mergedAt = base.prs[Last.args[1]].mergedAt
  /\ ( Last.op = "MergePullRequest" /\ Last.args[1] \in DOMAIN base.prs
       /\ base.prs[Last.args[1]].status = "MERGED" ) => Last.code = "OK"

\* MergePullRequest was called at a later time on a MERGED pull request with
\* two reviewers and returned the earlier timestamp
C15_Witness ==
  /\ Called("MergePullRequest", "OK")
  /\ Last.args[1] \in DOMAIN base.prs
  /\ base.prs[Last.args[1]].status = "MERGED"
  /\ Len(base.prs[Last.args[1]].reviewers) = 2
  /\ Last.out.mergedAt < call[SeqProc]

\* C16: there is no backfill: no operation increases the length of the
\* reviewer list of an existing pull request, and every ReassignReviewer on a
\* pull request whose reviewer list is empty fails with NOT_ASSIGNED.
C16_NoBackfill ==
  \A id \in DOMAIN base.prs :
    /\ id \in DOMAIN prs
    /\ Len(prs[id].reviewers) <= Len(base.prs[id].reviewers)
    /\ ( Last.op = "ReassignReviewer" /\ Last.args[1] = id
         /\ base.prs[id].reviewers = <<>> ) => Last.code = "NOT_ASSIGNED"

\* C16 amended: no operation increases the length of the reviewer list of an
\* existing pull request, and every ReassignReviewer on a pull request whose
\* reviewer list is empty fails: with PR_MERGED when the pull request is
\* MERGED, with NOT_ASSIGNED otherwise.
C16_NoBackfillAmended ==
  \A id \in DOMAIN base.prs :
    /\ id \in DOMAIN prs
    /\ Len(prs[id].reviewers) <= Len(base.prs[id].reviewers)
    /\ ( Last.op = "ReassignReviewer" /\ Last.args[1] = id
         /\ base.prs[id].reviewers = <<>> ) =>
         /\ Last.code = IF base.prs[id].status = "MERGED" THEN "PR_MERGED"
                        ELSE "NOT_ASSIGNED"
         /\ prs = base.prs

\* a reassignment was refused on an OPEN pull request whose reviewer list is
\* empty, for an inactive teammate of the author
C16_Witness ==
  /\ Called("ReassignReviewer", "NOT_ASSIGNED")
  /\ Last.args[1] \in DOMAIN prs
  /\ prs[Last.args[1]].status = "OPEN"
  /\ Reviewers(Last.args[1]) = <<>>
  /\ Last.args[2] \in DOMAIN users
  /\ ~users[Last.args[2]].active
  /\ users[Last.args[2]].team = users[prs[Last.args[1]].author].team

\* C17: SetUserIsActive(u, true) changes only u's active flag: every pull
\* request (reviewers, status, timestamps), every team and every other user
\* record is unchanged; u is not added to any pull request.
C17_ActivateOnlyFlag ==
  ( Called("SetUserIsActive", "OK") /\ Last.args[2] = TRUE ) =>
    /\ prs = base.prs
    /\ teams = base.teams
    /\ DOMAIN users = DOMAIN base.users
    /\ \A v \in DOMAIN users :
         users[v] = IF v = Last.args[1] THEN [base.users[v] EXCEPT !.active = TRUE]
                    ELSE base.users[v]
    /\ Last.out = users[Last.args[1]]

\* an inactive user was reactivated while an OPEN pull request of a teammate
\* has no reviewer and another user is inactive
C17_Witness ==
  /\ Called("SetUserIsActive", "OK") /\ Last.args[2] = TRUE
  /\ ~base.users[Last.args[1]].active
  /\ users[Last.args[1]].active
  /\ \E v \in DOMAIN users : ~users[v].active
  /\ \E id \in DOMAIN prs :
       /\ prs[id].status = "OPEN" /\ Reviewers(id) = <<>>
       /\ prs[id].author # Last.args[1]
       /\ users[prs[id].author].team = users[Last.args[1]].team

\* C18: CreatePullRequest with an id that already exists fails with
\* PR_EXISTS, also when the author id is unknown, and leaves the existing
\* pull request (name, author, status, reviewers, timestamps) and the rest of
\* the store unchanged.
C18_CreateExisting ==
  ( Last.op = "CreatePullRequest" /\ Last.args[1] \in DOMAIN base.prs ) =>
    /\ Last.code = "PR_EXISTS"
    /\ prs = base.prs /\ users = base.users /\ teams = base.teams

\* CreatePullRequest was refused for the id of a MERGED pull request that
\* has a reviewer, with an author id that is no user
C18_Witness ==
  /\ Called("CreatePullRequest", "PR_EXISTS")
  /\ Last.args[3] \notin DOMAIN users
  /\ prs[Last.args[1]].status = "MERGED"
  /\ Len(Reviewers(Last.args[1])) = 1

\* the store is as it was when the last operation was invoked
StoreKept == prs = base.prs /\ users = base.users /\ teams = base.teams

\* the NOT_FOUND cases that do not depend on the pull request id of
\* CreatePullRequest
C19_Others ==
  /\ ( Last.op \in {"MergePullRequest", "ReassignReviewer"}
       /\ Last.args[1] \notin DOMAIN base.prs ) => Last.code = "NOT_FOUND" /\ StoreKept
  /\ ( Last.op = "SetUserIsActive" /\ Last.args[1] \notin DOMAIN base.users )
       => Last.code = "NOT_FOUND" /\ StoreKept
  /\ ( Last.op \in {"GetTeam", "DeactivateTeamMembers"}
       /\ Last.args[1] \notin base.teams ) => Last.code = "NOT_FOUND" /\ StoreKept

\* C19: an operation whose primary entity does not exist fails with
\* NOT_FOUND: CreatePullRequest with an unknown author id (no pull request is
\* created), MergePullRequest and ReassignReviewer with an unknown pull
\* request id, SetUserIsActive with an unknown user id, GetTeam and
\* DeactivateTeamMembers with an unknown team name.
C19_NotFound ==
  /\ ( Last.op = "CreatePullRequest" /\ Last.args[3] \notin DOMAIN base.users )
       => Last.code = "NOT_FOUND" /\ StoreKept
  /\ C19_Others

\* C19 amended: the same, where CreatePullRequest with an unknown author id
\* fails with NOT_FOUND when its pull request id is new (with an existing id
\* it fails with PR_EXISTS); no pull request is created either way.
C19_NotFoundAmended ==
  /\ ( Last.op = "CreatePullRequest" /\ Last.args[3] \notin DOMAIN base.users )
       => /\ Last.code = IF Last.args[1] \in DOMAIN base.prs THEN "PR_EXISTS"
                         ELSE "NOT_FOUND"
          /\ StoreKept
  /\ C19_Others

\* CreatePullRequest with a new id and an unknown author was refused with
\* NOT_FOUND while another pull request exists
C19_Witness ==
  /\ Called("CreatePullRequest", "NOT_FOUND")
  /\ Last.args[3] \notin DOMAIN users
  /\ Last.args[1] \notin DOMAIN prs
  /\ prs # <<>>

\* the code ReassignReviewer(prID, oldUserID) must return on the store d
C20_Expected(d, prID, oldUserID) ==
  IF prID \notin DOMAIN d.prs THEN "NOT_FOUND"
  ELSE IF d.prs[prID].status = "MERGED" THEN "PR_MERGED"
  ELSE IF ~IsMember(d.prs[prID].reviewers, oldUserID) THEN "NOT_ASSIGNED"
  ELSE IF oldUserID \notin DOMAIN d.users THEN "NOT_FOUND"
  ELSE IF ~\E u \in DOMAIN d.users :
              /\ d.users[u].team = d.users[oldUserID].team /\ d.users[u].active
              /\ u # oldUserID /\ u # d.prs[prID].author
              /\ ~IsMember(d.prs[prID].reviewers, u)
       THEN "NO_CANDIDATE"
  ELSE "OK"

\* C20: ReassignReviewer reports the first precondition that fails, in this
\* order: unknown pull request -> NOT_FOUND; status MERGED -> PR_MERGED (also
\* when oldUserID is not a reviewer); oldUserID not in the reviewer list ->
\* NOT_ASSIGNED; oldUserID not an existing user -> NOT_FOUND; no eligible
\* candidate -> NO_CANDIDATE; a failed call leaves the store unchanged.
C20_ReassignOrder ==
  Last.op = "ReassignReviewer" =>
    /\ Last.code = C20_Expected(base, Last.args[1], Last.args[2])
    /\ Last.code # "OK" => StoreKept

\* a reassignment on a MERGED pull request, for an id that is neither a
\* reviewer of it nor a user, was refused with PR_MERGED
C20_Witness ==
  /\ Called("ReassignReviewer", "PR_MERGED")
  /\ ~IsMember(Reviewers(Last.args[1]), Last.args[2])
  /\ Reviewers(Last.args[1]) # <<>>
  /\ Last.args[2] \notin DOMAIN users

\* C21: a CreateTeam invoked with a name that is already stored returns
\* TEAM_EXISTS; a CreateTeam that does not succeed leaves the store as it was;
\* a CreateTeam succeeds only for a name that is not stored yet and stores
\* exactly that name, so of two racing CreateTeam of one name at most one
\* succeeds and the name is stored once.
C21_CreateTeamExisting ==
  [][ \A p \in Procs :
        (Completes(p) /\ ret'[p].op = "CreateTeam") =>
          LET t == ret'[p].args[1]
          IN /\ (pc[p] = "idle" /\ t \in teams) => ret'[p].code = "TEAM_EXISTS"
             /\ IF ret'[p].code = "OK"
                THEN t \notin teams /\ teams' = teams \cup {t}
                ELSE db' = db
    ]_vars

\* two CreateTeam of one name have raced: both passed the existence check,
\* one has committed and the other has failed on the insert
C21_Witness ==
  \E p, q \in Procs :
    /\ p # q /\ pc[p] = "idle" /\ pc[q] = "idle"
    /\ ret[p].op = "CreateTeam" /\ ret[q].op = "CreateTeam"
    /\ ret[p].args[1] = ret[q].args[1]
    /\ ret[p].code = "OK" /\ ret[q].code = "ERROR"
    /\ ret[p].args[1] \in teams

\* the store of the current state, as the argument of the *At operators
Store == [teams |-> teams, users |-> users, prs |-> prs]

DistinctIDs(ms) == \A i, j \in 1..Len(ms) : i # j => ms[i].id # ms[j].id

\* C22: in the state a successful CreateTeam(name, members) with pairwise
\* distinct member ids has produced, GetTeam(name) succeeds, changes nothing
\* and returns that name with exactly the given members (id, username and
\* active flag), in ascending order of the user id.
C22_RoundTrip ==
  (Called("CreateTeam", "OK") /\ DistinctIDs(Last.args[2])) =>
    LET t  == Last.args[1]
        ms == Last.args[2]
    IN \A o \in GetTeamAt(Store, t) :
         /\ o.code = "OK"
         /\ o.out.name = t
         /\ Len(o.out.members) = Len(ms)
         /\ Range(o.out.members) = Range(ms)
         /\ \A i, j \in 1..Len(o.out.members) :
              i < j => o.out.members[i].id < o.out.members[j].id
         /\ o.teams = teams /\ o.users = users /\ o.prs = prs

\* the team was created from a list that is not in id order and holds a user
\* who was stored before in another team
C22_Witness ==
  /\ Called("CreateTeam", "OK")
  /\ Len(Last.args[2]) = 2
  /\ Last.args[2][1].id > Last.args[2][2].id
  /\ \E i \in 1..2 : /\ Last.args[2][i].id \in DOMAIN base.users
                     /\ base.users[Last.args[2][i].id].team # Last.args[1]

PRsOf(u) == {id \in DOMAIN prs : IsMember(Reviewers(id), u)}

\* C23: in every state GetAssignmentStats succeeds and returns (a) one
\* per-user entry for every user that is in some reviewer list, its count
\* being the number of pull requests, OPEN or MERGED, whose list contains the
\* user, in ascending order of the user id, and (b) one per-PR entry for every
\* stored pull request, its count being the length of the reviewer list, in
\* ascending order of the pull request id; both lists are empty when no pull
\* request is stored.  A GetAssignmentStats that has run has returned this
\* and has changed nothing.
C23_Stats ==
  /\ \A o \in GetAssignmentStatsAt(Store) :
       LET bu == o.out.by_user
           bp == o.out.by_pr
       IN /\ o.code = "OK"
          /\ {bu[k].user_id : k \in 1..Len(bu)} = {u \in Users : PRsOf(u) # {}}
          /\ \A k \in 1..Len(bu) : bu[k].assignments = Cardinality(PRsOf(bu[k].user_id))
          /\ \A j, k \in 1..Len(bu) : j < k => bu[j].user_id < bu[k].user_id
          /\ {bp[k].pull_request_id : k \in 1..Len(bp)} = DOMAIN prs
          /\ \A k \in 1..Len(bp) :
               bp[k].assignments = Len(Reviewers(bp[k].pull_request_id))
          /\ \A j, k \in 1..Len(bp) : j < k => bp[j].pull_request_id < bp[k].pull_request_id
          /\ DOMAIN prs = {} => bu = <<>> /\ bp = <<>>
  /\ Last.op = "GetAssignmentStats" =>
       /\ StoreKept
       /\ \E o \in GetAssignmentStatsAt(Store) : Last.code = o.code /\ Last.out = o.out

\* GetAssignmentStats has run on a store with a MERGED pull request that has
\* reviewers
C23_Witness ==
  /\ Called("GetAssignmentStats", "OK")
  /\ \E id \in DOMAIN prs : prs[id].status = "MERGED" /\ Reviewers(id) # <<>>
  /\ Last.out.by_user # <<>>

\* C24: in every state and for every user id, stored or not, GetUserReviews
\* succeeds, changes nothing and returns exactly the pull requests, OPEN or
\* MERGED, whose reviewer list contains the id, each with its id, name, author
\* and status, in ascending order of the pull request id; the list is empty
\* for an id that is in no reviewer list, and no id gets NOT_FOUND.  A
\* GetUserReviews that has run has returned this and has changed nothing.
C24_UserReviews ==
  /\ \A u \in Users :
       \A o \in GetUserReviewsAt(Store, u) :
         LET r == o.out
         IN /\ o.code = "OK"
            /\ {r[k].id : k \in 1..Len(r)} = PRsOf(u)
            /\ \A j, k \in 1..Len(r) : j < k => r[j].id < r[k].id
            /\ \A k \in 1..Len(r) :
                 /\ r[k].name = prs[r[k].id].name
                 /\ r[k].author = prs[r[k].id].author
                 /\ r[k].status = prs[r[k].id].status
            /\ u \notin DOMAIN users => r = <<>>
            /\ o.teams = teams /\ o.users = users /\ o.prs = prs
  /\ Last.op = "GetUserReviews" =>
       /\ StoreKept
       /\ \E o \in GetUserReviewsAt(Store, Last.args[1]) :
            Last.code = o.code /\ Last.out = o.out

\* GetUserReviews has run for a reviewer of a MERGED pull request, in a
\* store where some user id is unknown
C24_Witness ==
  /\ Called("GetUserReviews", "OK")
  /\ Last.out # <<>>
  /\ Last.out[1].status = "MERGED"
  /\ \E u \in Users : u \notin DOMAIN users

\* C25: the team of a user is set once, when the user is first stored, and
\* never changes afterwards: whatever the last operation was, CreateTeam
\* included, every user stored before it is still stored and has the team it
\* had.
C25_TeamSetOnce ==
  \A u \in DOMAIN base.users :
    u \in DOMAIN users /\ users[u].team = base.users[u].team

\* C26: the active flag of a user is changed only by SetUserIsActive on that
\* user or by DeactivateTeamMembers on the user's team: every other operation,
\* CreateTeam included, leaves the flag of every user stored before it as it
\* was.
C26_FlagFrame ==
  \A u \in DOMAIN base.users :
    \/ Last.op = "SetUserIsActive" /\ Last.args[1] = u
    \/ Last.op = "DeactivateTeamMembers" /\ Last.args[1] = base.users[u].team
    \/ u \in DOMAIN users /\ users[u].active = base.users[u].active

\* C27: no operation deletes a team, a user or a pull request, and none
\* changes the id, name, author or creation time of a stored pull request:
\* whatever the last operation was, everything stored before it is still
\* stored and every pull request has kept these four attributes; and in every
\* state the author of every pull request is a stored user.
C27_Accumulate ==
  /\ base.teams \subseteq teams
  /\ DOMAIN base.users \subseteq DOMAIN users
  /\ \A id \in DOMAIN base.prs :
       /\ id \in DOMAIN prs
       /\ prs[id].name = base.prs[id].name
       /\ prs[id].author = base.prs[id].author
       /\ prs[id].createdAt = base.prs[id].createdAt
  /\ \A id \in DOMAIN prs : prs[id].author \in DOMAIN users

\* a pull request created earlier has just been merged
C27_Witness ==
  /\ Called("MergePullRequest", "OK")
  /\ base.prs[Last.args[1]].status = "OPEN"
  /\ prs[Last.args[1]].createdAt < prs[Last.args[1]].mergedAt

\* C28: no operation blocks for ever, because no reachable state has
\* operations that wait for each other's row locks in a cycle.
C28_NoLockCycle ==
  ~\E p, q \in Procs : WaitsFor(p, q) /\ WaitsFor(q, p)

\* the next statement of a running ReassignReviewer of session p can run
RR_CanStep(p) == ENABLED (RR_Lock(p) \/ RR_Team(p) \/ RR_Cand(p) \/ RR_Update(p))

\* C29: a running ReassignReviewer holds no row lock but that of its own pull
\* request, and two ReassignReviewer that run at the same time on different
\* pull requests never block each other: each of them can take its next step.
C29_ReassignDifferentPRs ==
  \A p \in Procs :
    loc[p].op = "ReassignReviewer" =>
      /\ {id \in DOMAIN lockPR : lockPR[id] = p} \subseteq {loc[p].prID}
      /\ \A u \in DOMAIN lockUser : lockUser[u] # p
      /\ \A q \in Procs :
           (loc[q].op = "ReassignReviewer" /\ loc[q].prID # loc[p].prID)
             => RR_CanStep(p)

\* two ReassignReviewer on different pull requests both hold their row lock
\* and have both chosen a replacement
C29_Witness ==
  \E p, q \in Procs :
    /\ pc[p] = "rr_update" /\ pc[q] = "rr_update"
    /\ loc[p].prID # loc[q].prID
    /\ lockPR[loc[p].prID] = p /\ lockPR[loc[q].prID] = q

\* the users that may replace reviewer u of pull request id in store d
C30_Eligible(d, id, u) ==
  {c \in DOMAIN d.users : /\ d.users[c].active
                          /\ d.users[c].team = d.users[u].team
                          /\ c # u
                          /\ c # d.prs[id].author
                          /\ ~IsMember(d.prs[id].reviewers, c)}

\* C30: whenever ReassignReviewer(id, u) gets as far as choosing (the pull
\* request is not MERGED, u is in its list and is a stored user) and some user
\* is eligible, its possible outcomes are exactly the eligible users, each of
\* them with OK: every eligible user can be returned, whatever the number of
\* its assignments, no other user can, and a single eligible user is the one
\* returned; and the user a ReassignReviewer has returned was eligible in the
\* store it ran on.
C30_Choice ==
  /\ \A id \in DOMAIN prs, u \in DOMAIN users :
       (prs[id].status # "MERGED" /\ IsMember(Reviewers(id), u)
          /\ C30_Eligible(Store, id, u) # {}) =>
         LET O == ReassignReviewerAt(Store, id, u)
         IN /\ \A o \in O : o.code = "OK"
            /\ {o.out[2] : o \in O} = C30_Eligible(Store, id, u)
  /\ Called("ReassignReviewer", "OK") =>
       Last.out[2] \in C30_Eligible(base, Last.args[1], Last.args[2])

\* a reassignment had more than one eligible user and has not returned the
\* one with the lowest id
C30_Witness ==
  /\ Called("ReassignReviewer", "OK")
  /\ Cardinality(C30_Eligible(base, Last.args[1], Last.args[2])) > 1
  /\ Last.out[2] # Min(C30_Eligible(base, Last.args[1], Last.args[2]))

\* C31: whatever an operation has returned, its handler answers a domain
\* error with the status of that error and the error's own code in the body
\* (TEAM_EXISTS 400; PR_EXISTS, PR_MERGED, NOT_ASSIGNED, NO_CANDIDATE 409;
\* NOT_FOUND 404), and any other error with 500 and the fixed text "internal
\* error" without a code.
C31_ErrorMapping ==
  \A p \in Procs :
    ret[p].op # "none" =>
      LET c    == ret[p].code
          resp == Response(ret[p])
      IN /\ c = "TEAM_EXISTS" => resp.status = 400
         /\ c \in {"PR_EXISTS", "PR_MERGED", "NOT_ASSIGNED", "NO_CANDIDATE"}
              => resp.status = 409
         /\ c = "NOT_FOUND" => resp.status = 404
         /\ c \in DomainCodes => resp.code = c /\ resp.text = ""
         /\ c \notin DomainCodes \cup {"OK"}
              => resp.status = 500 /\ resp.text = "internal error" /\ resp.code = ""

\* one call has returned a domain error and another a storage error
C31_Witness ==
  \E p, q \in Procs :
    /\ ret[p].code = "PR_EXISTS" /\ ret[q].code = "ERROR"
    /\ Response(ret[p]).status # Response(ret[q]).status

\* the fields a handler requires, in the order they are to be checked, each
\* with its position in the request and the empty value of its type
C32_Required(op) ==
  CASE op \in {"handlePullRequestCreate", "CreatePullRequest"} ->
         << [f |-> "pull_request_id", i |-> 1, empty |-> NULL],
            [f |-> "pull_request_name", i |-> 2, empty |-> ""],
            [f |-> "author_id", i |-> 3, empty |-> NULL] >>
    [] op \in {"handlePullRequestReassign", "ReassignReviewer"} ->
         << [f |-> "pull_request_id", i |-> 1, empty |-> NULL],
            [f |-> "old_user_id", i |-> 2, empty |-> NULL] >>
    [] op \in {"handlePullRequestMerge", "MergePullRequest"} ->
         << [f |-> "pull_request_id", i |-> 1, empty |-> NULL] >>
    [] op \in {"handleUserSetIsActive", "SetUserIsActive",
             "handleUserGetReview", "GetUserReviews"} ->
         << [f |-> "user_id", i |-> 1, empty |-> NULL] >>
    [] op \in {"handleTeamGet", "GetTeam",
             "handleTeamDeactivateMembers", "DeactivateTeamMembers"} ->
         << [f |-> "team_name", i |-> 1, empty |-> ""] >>
    [] OTHER -> << >>

C32_Missing(r) ==
  {k \in DOMAIN C32_Required(r.op) :
     r.args[C32_Required(r.op)[k].i] = C32_Required(r.op)[k].empty}

\* C32: a request that lacks a required field is answered with 400 and the
\* text "<field> is required" naming the first missing field in the fixed
\* order of its handler, and the stored state is the one before the request;
\* no other request is answered that way.
C32_RequiredFields ==
  nops > 0 =>
    IF C32_Missing(Last) # {}
    THEN /\ Last.code = "BAD_REQUEST"
         /\ Response(Last).status = 400
         /\ Response(Last).text = C32_Required(Last.op)[Min(C32_Missing(Last))].f \o " is required"
         /\ StoreKept
    ELSE Last.code # "BAD_REQUEST"

\* a pull request create without a name and without an author was rejected
\* on a store that holds a team
C32_Witness ==
  /\ Last.op = "handlePullRequestCreate" /\ Last.code = "BAD_REQUEST"
  /\ Cardinality(C32_Missing(Last)) = 2
  /\ Last.args[1] # NULL
  /\ teams # {}

\* C33: an operation that returned one of the domain errors TEAM_EXISTS,
\* PR_EXISTS, PR_MERGED, NOT_ASSIGNED, NO_CANDIDATE or NOT_FOUND has left the
\* teams, the users and the pull requests exactly as they were before it.
C33_ErrorKeepsStore ==
  (nops > 0 /\ Last.code \in DomainCodes) => StoreKept

\* a reassignment on a store with a team and an open pull request failed
\* with NO_CANDIDATE
C33_Witness ==
  /\ Called("ReassignReviewer", "NO_CANDIDATE")
  /\ StoreKept
  /\ prs # << >>

\* C34: every user in the reviewer list of a pull request that is not MERGED
\* is a stored user whose is_active flag is TRUE.
C34_OpenReviewersActive ==
  \A id \in DOMAIN prs :
    prs[id].status # "MERGED" =>
      \A u \in Range(prs[id].reviewers) : u \in DOMAIN users /\ users[u].active

\* C35: every id in the reviewer list of any pull request is the id of a
\* stored user; and a ReassignReviewer that returned NOT_FOUND was called
\* with the id of a pull request that does not exist: the "user not found"
\* answer after the old reviewer was found in the list is never given.
C35_ReviewersExist ==
  /\ \A id \in DOMAIN prs : Range(prs[id].reviewers) \subseteq DOMAIN users
  /\ Called("ReassignReviewer", "NOT_FOUND") => Last.args[1] \notin DOMAIN base.prs

\* a reassignment returned NOT_FOUND while another pull request with a
\* reviewer is stored
C35_Witness ==
  /\ Called("ReassignReviewer", "NOT_FOUND")
  /\ \E id \in DOMAIN prs : prs[id].reviewers # << >>

\* every reviewer of every pull request of store d is a user of the team of
\* the author of that pull request
C36_SameTeam(d) ==
  \A id \in DOMAIN d.prs :
    \A u \in Range(d.prs[id].reviewers) :
      /\ u \in DOMAIN d.users
      /\ d.prs[id].author \in DOMAIN d.users
      /\ d.users[u].team = d.users[d.prs[id].author].team

\* the last call was a CreateTeam that listed the id of a user stored before it
C36_ListsExisting ==
  /\ Last.op = "CreateTeam"
  /\ \E i \in 1..Len(Last.args[2]) : Last.args[2][i].id \in DOMAIN base.users

\* C36: every reviewer of every pull request is a member of the team of the
\* pull request's author, as long as no CreateTeam call lists a user id that
\* already exists.  Stated as the induction step over the calls (the empty
\* store has no pull request): a call other than such a CreateTeam, made on
\* a store where the property holds, leaves a store where it holds.
C36_ReviewersInAuthorTeam ==
  (nops > 0 /\ C36_SameTeam(base) /\ ~C36_ListsExisting) => C36_SameTeam(Store)

\* a pull request got a reviewer in a store with two teams of two users each
C36_Witness ==
  /\ Called("CreatePullRequest", "OK")
  /\ Last.out.reviewers # << >>
  /\ ~C36_ListsExisting /\ C36_SameTeam(base) /\ C36_SameTeam(Store)
  /\ \A t \in Teams : Cardinality({u \in DOMAIN users : users[u].team = t}) = 2

RECURSIVE C37_Sum(_)
C37_Sum(rows) ==
  IF rows = << >> THEN 0 ELSE Head(rows).assignments + C37_Sum(Tail(rows))

\* C37: in every result GetAssignmentStats has returned, whatever ran next
\* to it, the per-user counts and the per-pull-request counts add up to the
\* same number, and every per-pull-request count is between 0 and 2.
C37_StatsOneState ==
  \A p \in Procs :
    (ret[p].op = "GetAssignmentStats" /\ ret[p].code = "OK") =>
      /\ C37_Sum(ret[p].out.by_user) = C37_Sum(ret[p].out.by_pr)
      /\ \A i \in 1..Len(ret[p].out.by_pr) :
           ret[p].out.by_pr[i].assignments \in 0..MaxReviewers

C38_IDs(rows) == {rows[i].id : i \in 1..Len(rows)}

\* C38: CreateTeam is all-or-nothing.  A step of a CreateTeam call changes
\* the store only when the call returns OK, and then it adds the team and
\* upserts every listed member in that one step; a call that fails, also
\* part-way through its member loop, leaves the store as it was.  A GetTeam
\* that runs next to it and finds the new team returns all of its members.
C38_AllOrNothing ==
  [][ \A p \in Procs :
        /\ ( /\ pc[p] \in {"ct_insert", "ct_upsert"}
             /\ <<pc'[p], loc'[p]>> # <<pc[p], loc[p]>> ) =>
             IF pc'[p] = "idle" /\ ret'[p].code = "OK"
             THEN /\ teams' = teams \cup {loc[p].t}
                  /\ users' = UpsertMembers(users, loc[p].ms, loc[p].t)
                  /\ prs' = prs
             ELSE UNCHANGED db
        /\ ( /\ pc[p] = "gt_members" /\ pc'[p] = "idle"
             /\ ret'[p].code = "OK" /\ ret'[p].args[1] \in ConcTeams ) =>
             \E ms \in ConcMemberLists :
               C38_IDs(ret'[p].out.members) = C38_IDs(ms)
    ]_vars

\* one CreateTeam has failed, another has committed the team, and a GetTeam
\* has returned the new team
C38_Witness ==
  \E p, q \in Procs :
    /\ ret[p].op = "CreateTeam" /\ ret[p].code = "ERROR"
    /\ ret[q].op = "GetTeam" /\ ret[q].code = "OK" /\ ret[q].args[1] \in ConcTeams
    /\ ret[q].out.members # << >>

\* the store before the last call, with the flag of user a set
C39_AsActive(a) ==
  [teams |-> base.teams, prs |-> base.prs,
   users |-> [base.users EXCEPT ![a].active = TRUE]]

\* C39: a CreatePullRequest with a new id whose author is a stored inactive
\* user succeeds, and stores and returns exactly the pull request that the
\* same call gives when the author is active: the reviewers are the author's
\* active teammates, and the users are left as they were.
C39_InactiveAuthor ==
  ( /\ nops > 0 /\ Last.op = "CreatePullRequest"
    /\ Last.args[1] \notin DOMAIN base.prs
    /\ Last.args[3] \in DOMAIN base.users
    /\ ~base.users[Last.args[3]].active ) =>
      /\ Last.code = "OK"
      /\ users = base.users /\ teams = base.teams
      /\ \E o \in CreatePullRequestAt(C39_AsActive(Last.args[3]), Last.args[1],
                                      Last.args[2], Last.args[3], nops) :
           o.code = "OK" /\ o.out = Last.out /\ o.prs = prs
      /\ \A u \in Range(Last.out.reviewers) :
           /\ base.users[u].active
           /\ base.users[u].team = base.users[Last.args[3]].team

\* an inactive author has created a pull request that got a reviewer
C39_Witness ==
  /\ Called("CreatePullRequest", "OK")
  /\ Last.args[3] \in DOMAIN base.users
  /\ ~base.users[Last.args[3]].active
  /\ Last.out.reviewers # << >>

====
